---- MODULE Spec2Model ----
(***************************************************************************)
(* A model of the booking platform backend: the booking ledger, the        *)
(* mentor services and the mentor availability store, and the request      *)
(* handlers that read and write them (routes/bookings.js,                  *)
(* routes/dashboard.js) over the relational schema.                        *)
(*                                                                         *)
(* Every "await pool.query" of a handler is one step: between two steps    *)
(* of one request any step of another request may run.  Instants are       *)
(* milliseconds since the epoch, as Date.getTime() gives them.             *)
(***************************************************************************)
EXTENDS Integers, Sequences, FiniteSets, TLC

VARIABLES
    bookings,            \* table bookings, in insertion order; id = position
    mentor_services,     \* table mentor_services, a set of rows
    nextServiceId,       \* uuid_generate_v4() for mentor_services: a fresh id
    mentor_availability, \* table mentor_availability, a set of rows
    now,                 \* the wall clock, new Date()
    pc,                  \* per request handler: the await it is suspended at
    req,                 \* per request handler: req.user and req.body of its last request
    service,             \* per request handler: serviceQuery.rows[0]
    resp,                \* per request handler: the response to its last request
    availabilityReq,     \* PUT /dashboard/mentor/availability: the last request
    availabilityResp,    \* PUT /dashboard/mentor/availability: the last response
    saves,               \* PUT /dashboard/mentor/availability, per concurrent handler:
                         \* the await it is suspended at, its request and response
    tx,                  \* PUT /dashboard/mentor/services: the await the handler is
                         \* suspended at, its request, the uncommitted work of its
                         \* transaction, and its response
    lookup,              \* GET /bookings/booked-times and GET /bookings/check: the
                         \* last request and its response
    users_table,         \* table users as registration writes it, a set of rows
    mentor_details,      \* table mentor_details, a set of rows
    marketing_consent_history, \* table marketing_consent_history, a set of rows
    registration,        \* registerStudent / registerMentor: the await the service
                         \* is suspended at, its request, the uncommitted work of
                         \* its client connection, and the response
    mentor_document_confirmations, \* table mentor_document_confirmations, a set of rows
    confirms             \* POST /dashboard/mentor/confirm-document, per concurrent
                         \* handler: the await it is suspended at, its request and
                         \* its response

vars == <<bookings, mentor_services, nextServiceId, mentor_availability, now,
          pc, req, service, resp, availabilityReq, availabilityResp, saves, tx,
          lookup, users_table, mentor_details, marketing_consent_history,
          registration, mentor_document_confirmations, confirms>>

storeVars == <<bookings, mentor_services, nextServiceId, mentor_availability>>
handlerVars == <<pc, req, service, resp>>
dashboardVars == <<availabilityReq, availabilityResp, saves, tx>>
accountVars == <<users_table, mentor_details, marketing_consent_history, registration>>
documentVars == <<mentor_document_confirmations, confirms>>
restVars == <<lookup, accountVars, documentVars>>
bookingVars == <<storeVars, now, handlerVars, dashboardVars, lookup, documentVars>>
bookingSideVars == <<storeVars, now, handlerVars, dashboardVars, lookup>>

-----------------------------------------------------------------------------
(* Bounds of the model *)

MaxBookings == 2      \* rows of table bookings
MaxServiceId == 2     \* mentor_services rows ever inserted
MaxSlots == 3         \* slots of one day of a generated schedule
MaxTxServiceId == 4   \* mentor_services rows the stepwise services handler ever inserts
MaxRegistrations == 2 \* users rows the registration service ever inserts

-----------------------------------------------------------------------------
(* The users table.  Registration is not part of this model: the table     *)
(* holds two mentors and one student throughout.                           *)

users == {[id |-> "m1", user_type |-> "mentor"],
          [id |-> "m2", user_type |-> "mentor"],
          [id |-> "s1", user_type |-> "user"]}

Procs == {"p1", "p2"}

\* const durationMinutes = 60
durationMinutes == 60

\* durationMinutes * 60 * 1000, and SQL's INTERVAL '1 minute', in milliseconds
MinuteMs == 60 * 1000

HalfHourMs == 30 * MinuteMs

-----------------------------------------------------------------------------
(* Rows and values *)

\* SQL NULL / JavaScript undefined for an id
NoId == 0

BookingStatus == {"pending", "confirmed", "completed",
                  "cancelled_by_student", "cancelled_by_mentor", "no_show"}

NoService == [id |-> NoId, mentor_id |-> "", mentorship_service |-> "",
              mentor_session_price |-> 0, platform_fee |-> 0, taxes_fee |-> 0,
              total_price |-> 0]

NoBooking == [id |-> NoId, mentor_id |-> "", user_id |-> "", service_id |-> NoId,
              session_date |-> 0, duration_minutes |-> 0,
              mentor_price |-> 0, platform_fee |-> 0, taxes_fee |-> 0,
              total_price |-> 0, status |-> "", payment_status |-> ""]

\* req.cookies.token, decoded: absent, or {id, userType}
NoToken == [present |-> FALSE, id |-> "", userType |-> ""]
Token(u) == [present |-> TRUE, id |-> u.id, userType |-> u.user_type]
Tokens == {NoToken} \cup {Token(u) : u \in users}

\* req.body.sessionDate: absent, a string Date cannot parse, or an ISO instant
DateMissing == [kind |-> "missing", ms |-> 0]
DateGarbage == [kind |-> "garbage", ms |-> 0]
DateIso(t) == [kind |-> "iso", ms |-> t]
\* the instants of the model: the clock and the proposed session starts
ClockInstants == {0, HalfHourMs}
SessionStarts == {0, HalfHourMs, 2 * HalfHourMs, 3 * HalfHourMs}
SessionDates == {DateMissing, DateGarbage} \cup {DateIso(t) : t \in SessionStarts}

\* req.body.mentorId: absent (""), a mentor, a student, or an id of no user
MentorIds == {"", "ghost"} \cup {u.id : u \in users}

ServiceIds == 0..MaxServiceId

NoReq == [user |-> NoToken, mentorId |-> "", serviceId |-> NoId, sessionDate |-> DateMissing]

Request(tok, m, sid, d) == [user |-> tok, mentorId |-> m, serviceId |-> sid, sessionDate |-> d]

\* a student's requests for a mentor, with every field present
WellFormedRequests ==
    {Request(Token(u), m.id, sid, d) :
        u \in {x \in users : x.user_type = "user"},
        m \in {x \in users : x.user_type = "mentor"},
        sid \in ServiceIds \ {NoId},
        d \in SessionDates \ {DateMissing}}

\* requests that differ from a well-formed one in the caller or in one field
MalformedRequests ==
    LET base == Request(Token([id |-> "s1", user_type |-> "user"]), "m1", 1,
                        DateIso(2 * HalfHourMs))
    IN {[base EXCEPT !.user = t] : t \in Tokens}
       \cup {[base EXCEPT !.mentorId = m] : m \in MentorIds}
       \cup {[base EXCEPT !.serviceId = NoId], [base EXCEPT !.sessionDate = DateMissing]}

Requests == WellFormedRequests \cup MalformedRequests

NoResp == [status |-> 0, message |-> "", data |-> NoBooking]
Reply(code, msg) == [status |-> code, message |-> msg, data |-> NoBooking]

-----------------------------------------------------------------------------
(* middleware/auth.js *)

\* authenticateUser: a request without a token is answered 401
authenticateUser(token) == token.present

\* requireStudent: req.user.userType !== 'user' is answered 403
requireStudent(token) == token.userType = "user"

\* requireMentor: req.user.userType !== 'mentor' is answered 403
requireMentor(token) == token.userType = "mentor"

-----------------------------------------------------------------------------
(* POST /bookings: the queries and checks of the handler *)

\* if (!mentorId || !serviceId || !sessionDate)
MissingRequiredFields(r) ==
    \/ r.mentorId = ""
    \/ r.serviceId = NoId
    \/ r.sessionDate.kind = "missing"

\* a mentor check that also asks for the mentor's availability row
mentorCheckHavingAvailability(mentorId) ==
    {u \in users : /\ u.id = mentorId
                   /\ u.user_type = "mentor"
                   /\ \E a \in mentor_availability : a.mentor_id = u.id}

\* SELECT id FROM users WHERE id = $1 AND user_type = 'mentor'
mentorCheck(mentorId) ==
    {u \in users : u.id = mentorId /\ u.user_type = "mentor"}

\* serviceQuery without its mentor_id condition
serviceQueryAnyMentor(serviceId, mentorId) ==
    {s \in mentor_services : s.id = serviceId}

\* SELECT * FROM mentor_services WHERE id = $1 AND mentor_id = $2
serviceQuery(serviceId, mentorId) ==
    {s \in mentor_services : s.id = serviceId /\ s.mentor_id = mentorId}

\* isNaN(new Date(sessionDate).getTime())
IsInvalidDate(d) == d.kind # "iso"

\* the future check with < for <=
NotInFutureStrict(d, clock) == d.ms < clock

\* sessionDateObj <= new Date()
NotInFuture(d, clock) == d.ms <= clock

\* new Date(sessionDateObj.getTime() + durationMinutes * 60 * 1000)
sessionEndDate(start) == start + durationMinutes * MinuteMs

\* session_date + (duration_minutes * INTERVAL '1 minute')
RowEnd(b) == b.session_date + b.duration_minutes * MinuteMs

\* a filter that leaves out the bookings cancelled by the student or the mentor
NotCancelledByAnyoneFilter(b) ==
    b.status \notin {"cancelled_by_student", "cancelled_by_mentor"}

\* AND status != 'cancelled'
NotCancelledFilter(b) == b.status # "cancelled"

\* the overlap clauses with every comparison inclusive
OverlapClausesInclusive(b, start, end) ==
    \/ (b.session_date <= start /\ RowEnd(b) >= start)
    \/ (b.session_date <= end /\ RowEnd(b) >= end)
    \/ (b.session_date >= start /\ RowEnd(b) <= end)

\* the overlap clauses without the third, "new booking encompasses existing"
OverlapClausesNoEncompass(b, start, end) ==
    \/ (b.session_date <= start /\ RowEnd(b) > start)
    \/ (b.session_date < end /\ RowEnd(b) >= end)

\* the three clauses of the overlap query; $2 = start, $3 = end
OverlapClauses(b, start, end) ==
    \/ (b.session_date <= start /\ RowEnd(b) > start)
    \/ (b.session_date < end /\ RowEnd(b) >= end)
    \/ (b.session_date >= start /\ RowEnd(b) <= end)

\* the overlap query without its mentor_id condition
overlapCheckAnyMentor(mentorId, start, end) ==
    {i \in DOMAIN bookings :
        /\ NotCancelledFilter(bookings[i])
        /\ OverlapClauses(bookings[i], start, end)}

\* SELECT id FROM bookings WHERE mentor_id = $1 AND status != 'cancelled' AND (...)
overlapCheck(mentorId, start, end) ==
    {i \in DOMAIN bookings :
        /\ bookings[i].mentor_id = mentorId
        /\ NotCancelledFilter(bookings[i])
        /\ OverlapClauses(bookings[i], start, end)}

\* the insert with the two fee parameters in each other's place
insertQuerySwappedFees(id, r, svc) ==
    [id |-> id,
     mentor_id |-> r.mentorId,
     user_id |-> r.user.id,
     service_id |-> r.serviceId,
     session_date |-> r.sessionDate.ms,
     duration_minutes |-> 60,
     mentor_price |-> svc.mentor_session_price,
     platform_fee |-> svc.taxes_fee,
     taxes_fee |-> svc.platform_fee,
     total_price |-> svc.total_price,
     status |-> "pending",
     payment_status |-> "pending"]

\* the row of INSERT INTO bookings (...) VALUES ($1, ..., $13)
insertQuery(id, r, svc) ==
    [id |-> id,
     mentor_id |-> r.mentorId,
     user_id |-> r.user.id,
     service_id |-> r.serviceId,
     session_date |-> r.sessionDate.ms,
     duration_minutes |-> 60,
     mentor_price |-> svc.mentor_session_price,
     platform_fee |-> svc.platform_fee,
     taxes_fee |-> svc.taxes_fee,
     total_price |-> svc.total_price,
     status |-> "pending",
     payment_status |-> "pending"]

\* the CHECK constraints of table bookings
BookingChecks(b) ==
    /\ b.duration_minutes > 0
    /\ b.mentor_price > 0
    /\ b.platform_fee >= 0
    /\ b.taxes_fee >= 0
    /\ b.total_price > 0
    /\ b.total_price = b.mentor_price + b.platform_fee + b.taxes_fee

\* the REFERENCES constraints of table bookings without the one on service_id
BookingForeignKeysUsersOnly(b) ==
    /\ \E u \in users : u.id = b.mentor_id
    /\ \E u \in users : u.id = b.user_id

\* the REFERENCES constraints of table bookings
BookingForeignKeys(b) ==
    /\ \E u \in users : u.id = b.mentor_id
    /\ \E u \in users : u.id = b.user_id
    /\ (b.service_id # NoId => \E s \in mentor_services : s.id = b.service_id)

-----------------------------------------------------------------------------
(* POST /bookings: the steps of one request handler p *)

\* res.status(...).json(...): the handler returns
Respond(p, r) ==
    /\ resp' = [resp EXCEPT ![p] = r]
    /\ pc' = [pc EXCEPT ![p] = "idle"]
    /\ service' = [service EXCEPT ![p] = NoService]

\* the handler awaits its next query
Goto(p, label) ==
    /\ pc' = [pc EXCEPT ![p] = label]
    /\ UNCHANGED <<service, resp>>

\* handlers that have begun and not yet answered
InFlight == {q \in Procs : pc[q] # "idle"}

\* the request arrives; middleware and the required-fields check run
Begin(p, r) ==
    /\ pc[p] = "idle"
    /\ Len(bookings) + Cardinality(InFlight) < MaxBookings
    /\ IF ~authenticateUser(r.user)
         THEN Respond(p, Reply(401, "Not authenticated"))
       ELSE IF ~requireStudent(r.user)
         THEN Respond(p, Reply(403, "Access denied. Student only."))
       ELSE IF MissingRequiredFields(r)
         THEN Respond(p, Reply(400, "Missing required fields: mentorId, serviceId, sessionDate"))
       ELSE /\ pc' = [pc EXCEPT ![p] = "mentorCheck"]
            /\ resp' = [resp EXCEPT ![p] = NoResp]
            /\ service' = service
    /\ req' = [req EXCEPT ![p] = r]
    /\ UNCHANGED <<storeVars, now, dashboardVars, restVars>>

MentorCheck(p) ==
    /\ pc[p] = "mentorCheck"
    /\ IF mentorCheck(req[p].mentorId) = {}
         THEN Respond(p, Reply(404, "Mentor not found"))
         ELSE Goto(p, "serviceQuery")
    /\ UNCHANGED <<storeVars, now, req, dashboardVars, restVars>>

ServiceQuery(p) ==
    /\ pc[p] = "serviceQuery"
    /\ LET rows == serviceQuery(req[p].serviceId, req[p].mentorId) IN
         IF rows = {}
           THEN Respond(p, Reply(404, "Service not found"))
           ELSE /\ pc' = [pc EXCEPT ![p] = "validateDate"]
                /\ service' = [service EXCEPT ![p] = CHOOSE s \in rows : TRUE]
                /\ resp' = resp
    /\ UNCHANGED <<storeVars, now, req, dashboardVars, restVars>>

\* runs when serviceQuery has answered: reads the clock
ValidateDate(p) ==
    /\ pc[p] = "validateDate"
    /\ IF IsInvalidDate(req[p].sessionDate)
         THEN Respond(p, Reply(400, "Invalid session date format"))
       ELSE IF NotInFuture(req[p].sessionDate, now)
         THEN Respond(p, Reply(400, "Session date must be in the future"))
       ELSE Goto(p, "overlapCheck")
    /\ UNCHANGED <<storeVars, now, req, dashboardVars, restVars>>

OverlapCheck(p) ==
    /\ pc[p] = "overlapCheck"
    /\ LET start == req[p].sessionDate.ms IN
         IF overlapCheck(req[p].mentorId, start, sessionEndDate(start)) # {}
           THEN Respond(p, Reply(400, "This time slot is already booked. Please select a different time."))
           ELSE Goto(p, "insert")
    /\ UNCHANGED <<storeVars, now, req, dashboardVars, restVars>>

\* INSERT ... RETURNING; a constraint violation throws and is answered 500
Insert(p) ==
    /\ pc[p] = "insert"
    /\ LET row == insertQuery(Len(bookings) + 1, req[p], service[p]) IN
         IF BookingChecks(row) /\ BookingForeignKeys(row)
           THEN /\ bookings' = Append(bookings, row)
                /\ Respond(p, [status |-> 201,
                               message |-> "Booking created successfully",
                               data |-> row])
           ELSE /\ bookings' = bookings
                /\ Respond(p, Reply(500, "Failed to create booking"))
    /\ UNCHANGED <<mentor_services, nextServiceId, mentor_availability, now, req, dashboardVars, restVars>>

\* the wall clock advances
Tick ==
    /\ now + HalfHourMs \in ClockInstants
    /\ now' = now + HalfHourMs
    /\ UNCHANGED <<storeVars, handlerVars, dashboardVars, restVars>>

-----------------------------------------------------------------------------
(* PUT /dashboard/mentor/services *)

\* a JSON value of a price field: a number n (whole) or n + 0.5 (not whole),
\* a string, or absent
Num(n) == [type |-> "number", n |-> n, whole |-> TRUE]
Half(n) == [type |-> "number", n |-> n, whole |-> FALSE]
Str(n) == [type |-> "string", n |-> n, whole |-> TRUE]
Undefined == [type |-> "undefined", n |-> 0, whole |-> TRUE]

\* !v
Falsy(v) == v.type = "undefined" \/ (v.type = "number" /\ v.whole /\ v.n = 0)
\* typeof v !== 'number'
NotNumber(v) == v.type # "number"
\* v <= 0
NotPositive(v) == v.n < 0 \/ (v.n = 0 /\ v.whole)
\* v < 0
Negative(v) == v.n < 0
\* Number.isInteger(v)
IsInteger(v) == v.type = "number" /\ v.whole

Item(name, price, fee, tax, total) ==
    [mentorshipService |-> name, mentorSessionPrice |-> price,
     platformFee |-> fee, taxesFee |-> tax, totalPrice |-> total]

\* the checks of one item with the verification of the total left out
ServiceErrorNoTotalCheck(sv) ==
    IF sv.mentorshipService = ""
      THEN "Each service must have a valid mentorship service name"
    ELSE IF Falsy(sv.mentorSessionPrice) \/ NotNumber(sv.mentorSessionPrice)
            \/ NotPositive(sv.mentorSessionPrice)
      THEN "Each service must have a valid mentor session price (positive integer)"
    ELSE IF NotNumber(sv.platformFee) \/ Negative(sv.platformFee)
      THEN "Each service must have a valid platform fee (non-negative integer)"
    ELSE IF NotNumber(sv.taxesFee) \/ Negative(sv.taxesFee)
      THEN "Each service must have a valid taxes fee (non-negative integer)"
    ELSE IF Falsy(sv.totalPrice) \/ NotNumber(sv.totalPrice) \/ NotPositive(sv.totalPrice)
      THEN "Each service must have a valid total price (positive integer)"
    ELSE IF ~IsInteger(sv.mentorSessionPrice) \/ ~IsInteger(sv.platformFee)
            \/ ~IsInteger(sv.taxesFee) \/ ~IsInteger(sv.totalPrice)
      THEN "All prices must be whole numbers (no decimals)"
    ELSE ""

\* the first validation failure of one item of the batch, or "" when it passes
ServiceError(sv) ==
    IF sv.mentorshipService = ""
      THEN "Each service must have a valid mentorship service name"
    ELSE IF Falsy(sv.mentorSessionPrice) \/ NotNumber(sv.mentorSessionPrice)
            \/ NotPositive(sv.mentorSessionPrice)
      THEN "Each service must have a valid mentor session price (positive integer)"
    ELSE IF NotNumber(sv.platformFee) \/ Negative(sv.platformFee)
      THEN "Each service must have a valid platform fee (non-negative integer)"
    ELSE IF NotNumber(sv.taxesFee) \/ Negative(sv.taxesFee)
      THEN "Each service must have a valid taxes fee (non-negative integer)"
    ELSE IF Falsy(sv.totalPrice) \/ NotNumber(sv.totalPrice) \/ NotPositive(sv.totalPrice)
      THEN "Each service must have a valid total price (positive integer)"
    ELSE IF ~IsInteger(sv.mentorSessionPrice) \/ ~IsInteger(sv.platformFee)
            \/ ~IsInteger(sv.taxesFee) \/ ~IsInteger(sv.totalPrice)
      THEN "All prices must be whole numbers (no decimals)"
    ELSE IF sv.totalPrice.n # sv.mentorSessionPrice.n + sv.platformFee.n + sv.taxesFee.n
      THEN "Total price mismatch"
    ELSE ""

\* for (const service of services) { ... }: every item passes
ServicesValid(batch) == \A i \in DOMAIN batch : ServiceError(batch[i]) = ""

\* the row of INSERT INTO mentor_services (...) VALUES ($1, ..., $6)
ServiceRow(id, mentorId, sv) ==
    [id |-> id, mentor_id |-> mentorId,
     mentorship_service |-> sv.mentorshipService,
     mentor_session_price |-> sv.mentorSessionPrice.n,
     platform_fee |-> sv.platformFee.n,
     taxes_fee |-> sv.taxesFee.n,
     total_price |-> sv.totalPrice.n]

\* a table without the UNIQUE constraint
BatchNamesAny(batch) == \A i \in DOMAIN batch : batch[i].mentorshipService \in STRING

\* UNIQUE(mentor_id, mentorship_service), over the rows the transaction inserts
\* after its DELETE
BatchNamesUnique(batch) ==
    \A i, j \in DOMAIN batch :
        batch[i].mentorshipService = batch[j].mentorshipService => i = j

\* the DELETE without its WHERE clause
DeleteEveryService(mentorId) == {}

\* DELETE FROM mentor_services WHERE mentor_id = $1
DeleteServices(mentorId) == {s \in mentor_services : s.mentor_id # mentorId}

\* ON DELETE CASCADE in place of ON DELETE SET NULL
CascadeOnDelete(remaining) ==
    SelectSeq(bookings, LAMBDA b :
        b.service_id = NoId \/ \E s \in remaining : s.id = b.service_id)

\* a delete that also cancels the bookings of the deleted service
SetNullAndCancelOnDelete(remaining) ==
    [i \in DOMAIN bookings |->
        IF bookings[i].service_id # NoId
           /\ ~\E s \in remaining : s.id = bookings[i].service_id
          THEN [bookings[i] EXCEPT !.service_id = NoId, !.status = "cancelled_by_mentor"]
          ELSE bookings[i]]

\* bookings.service_id REFERENCES mentor_services(id) ON DELETE SET NULL
SetNullOnDelete(remaining) ==
    [i \in DOMAIN bookings |->
        IF bookings[i].service_id # NoId
           /\ ~\E s \in remaining : s.id = bookings[i].service_id
          THEN [bookings[i] EXCEPT !.service_id = NoId]
          ELSE bookings[i]]

\* the whole handler.  The DELETE and the INSERTs run in one transaction, so
\* other requests see its effect at COMMIT or not at all (ROLLBACK).
PutServices(token, batch) ==
    /\ authenticateUser(token)
    /\ requireMentor(token)
    /\ IF ServicesValid(batch) /\ BatchNamesUnique(batch)
         THEN /\ nextServiceId + Len(batch) - 1 <= MaxServiceId
              /\ LET remaining == DeleteServices(token.id)
                     inserted == {ServiceRow(nextServiceId + i - 1, token.id, batch[i]) :
                                     i \in DOMAIN batch}
                 IN /\ mentor_services' = remaining \cup inserted
                    /\ bookings' = SetNullOnDelete(remaining)
              /\ nextServiceId' = nextServiceId + Len(batch)
         ELSE UNCHANGED <<mentor_services, bookings, nextServiceId>>
    /\ UNCHANGED <<mentor_availability, now, handlerVars, dashboardVars, restVars>>

\* The same handler as the steps of its transaction.  Other connections
\* read mentor_services as committed; the handler's own connection also sees
\* the uncommitted work kept in tx.

\* the largest value of an INTEGER column.  PostgreSQL's is 2^31 - 1, which
\* the numbers of a request (IEEE doubles) exceed but the model checker's
\* integers cannot: the column is modelled 16 bits wide.
MaxInteger == 32767

\* a service name longer than VARCHAR(255) holds
LongName == "a name of 256 characters"

\* req.body.services: absent, not an array, or an array of items
ServicesMissing == [kind |-> "missing", items |-> <<>>]
ServicesNotArray == [kind |-> "notArray", items |-> <<>>]
ServicesArray(batch) == [kind |-> "array", items |-> batch]

NoServicesReq == [user |-> NoToken, services |-> ServicesMissing]
ServicesReply(code, msg, rows) == [status |-> code, message |-> msg, data |-> rows]
NoTx == [state |-> "idle", req |-> NoServicesReq, deleted |-> FALSE, inserted |-> <<>>,
         resp |-> ServicesReply(0, "", <<>>), error |-> ""]

\* the answer of the middleware and the checks, "" when the request passes them
ServicesRejection(r) ==
    IF ~authenticateUser(r.user) THEN ServicesReply(401, "Not authenticated", <<>>)
    ELSE IF ~requireMentor(r.user) THEN ServicesReply(403, "Access denied. Mentor only.", <<>>)
    ELSE IF r.services.kind # "array" THEN ServicesReply(400, "Services must be an array", <<>>)
    ELSE IF ~ServicesValid(r.services.items)
      THEN LET k == CHOOSE i \in DOMAIN r.services.items :
                        /\ ServiceError(r.services.items[i]) # ""
                        /\ \A j \in 1..(i - 1) : ServiceError(r.services.items[j]) = ""
           IN ServicesReply(400, ServiceError(r.services.items[k]), <<>>)
    ELSE ServicesReply(0, "", <<>>)

\* the rows of mentor_services the transaction's connection sees
TxVisible ==
    (IF tx.deleted THEN DeleteServices(tx.req.user.id) ELSE mentor_services)
        \cup {tx.inserted[i] : i \in DOMAIN tx.inserted}

\* the CHECK constraints of table mentor_services
ServiceChecks(row) ==
    /\ row.mentor_session_price > 0
    /\ row.platform_fee >= 0
    /\ row.taxes_fee >= 0
    /\ row.total_price > 0
    /\ row.total_price = row.mentor_session_price + row.platform_fee + row.taxes_fee

\* the SQLSTATE an INSERT of row raises, "" when the row is inserted
InsertError(row) ==
    IF row.mentorship_service = LongName THEN "22001"
    ELSE IF \E f \in {"mentor_session_price", "platform_fee", "taxes_fee", "total_price"} :
               row[f] > MaxInteger
      THEN "22003"
    ELSE IF ~ServiceChecks(row) THEN "23514"
    ELSE IF \E old \in TxVisible : /\ old.mentor_id = row.mentor_id
                                   /\ old.mentorship_service = row.mentorship_service
      THEN "23505"
    ELSE ""

\* the statements run outside a transaction: what they did before the failure
\* stays in the table
RollbackKeepsWork(code) ==
    /\ tx' = [state |-> "idle", req |-> tx.req, deleted |-> FALSE, inserted |-> <<>>,
              resp |-> ServicesReply(500, "Failed to save services", <<>>), error |-> code]
    /\ mentor_services' = TxVisible
    /\ bookings' = SetNullOnDelete(TxVisible)

\* catch (err) { await client.query('ROLLBACK'); throw err; } and the outer
\* catch: the uncommitted work is discarded and the request answered 500
Rollback(code) ==
    /\ tx' = [state |-> "idle", req |-> tx.req, deleted |-> FALSE, inserted |-> <<>>,
              resp |-> ServicesReply(500, "Failed to save services", <<>>), error |-> code]
    /\ UNCHANGED <<bookings, mentor_services>>

\* the middleware and the validation loop, then pool.connect() and BEGIN
ReceiveServices(r) ==
    /\ tx.state = "idle"
    /\ IF ServicesRejection(r).status # 0
         THEN tx' = [NoTx EXCEPT !.req = r, !.resp = ServicesRejection(r)]
         ELSE /\ nextServiceId + Len(r.services.items) - 1 <= MaxTxServiceId
              /\ tx' = [NoTx EXCEPT !.state = "delete", !.req = r]
    /\ UNCHANGED <<storeVars, now, handlerVars, restVars, availabilityReq, availabilityResp, saves>>

\* DELETE FROM mentor_services WHERE mentor_id = $1
DeleteStep ==
    /\ tx.state = "delete"
    /\ tx' = [tx EXCEPT !.deleted = TRUE,
                        !.state = IF tx.req.services.items = <<>> THEN "commit" ELSE "insert"]
    /\ UNCHANGED <<storeVars, now, handlerVars, restVars, availabilityReq, availabilityResp, saves>>

\* one INSERT INTO mentor_services of the loop: the row joins the uncommitted
\* work, or the statement raises and the transaction is rolled back
InsertStep ==
    /\ tx.state = "insert"
    /\ LET sv == tx.req.services.items[Len(tx.inserted) + 1]
           row == ServiceRow(nextServiceId, tx.req.user.id, sv)
       IN IF InsertError(row) # ""
            THEN /\ Rollback(InsertError(row))
                 /\ UNCHANGED nextServiceId
            ELSE /\ tx' = [tx EXCEPT !.inserted = Append(tx.inserted, row),
                                     !.state = IF Len(tx.inserted) + 1 = Len(tx.req.services.items)
                                                 THEN "commit" ELSE "insert"]
                 /\ nextServiceId' = nextServiceId + 1
                 /\ UNCHANGED <<bookings, mentor_services>>
    /\ UNCHANGED <<mentor_availability, now, handlerVars, restVars, availabilityReq, availabilityResp, saves>>

\* COMMIT: the delete and the inserts become visible together, and the
\* handler answers with the inserted rows
CommitStep ==
    /\ tx.state = "commit"
    /\ mentor_services' = TxVisible
    /\ bookings' = SetNullOnDelete(TxVisible)
    /\ tx' = [state |-> "idle", req |-> tx.req, deleted |-> FALSE, inserted |-> <<>>,
              resp |-> ServicesReply(200, "Services saved successfully", tx.inserted),
              error |-> ""]
    /\ UNCHANGED <<nextServiceId, mentor_availability, now, handlerVars, restVars,
                   availabilityReq, availabilityResp, saves>>

\* a query of the transaction fails because the store is unavailable
QueryFails ==
    /\ tx.state \in {"delete", "insert", "commit"}
    /\ Rollback("08006")
    /\ UNCHANGED <<nextServiceId, mentor_availability, now, handlerVars, restVars,
                   availabilityReq, availabilityResp, saves>>

\* the batches the mentors submit
ItemIntro == Item("intro", Num(100), Num(14), Num(26), Num(140))
ItemIntro2 == Item("intro", Num(200), Num(28), Num(52), Num(280))
ItemReview == Item("review", Num(50), Num(7), Num(13), Num(70))
ItemMismatch == Item("intro", Num(100), Num(14), Num(26), Num(139))

ItemHalf == Item("intro", Half(100), Num(14), Num(26), Num(140))
ItemFree == Item("intro", Num(0), Num(0), Num(0), Num(0))
ItemNegativeFee == Item("intro", Num(100), Num(-14), Num(26), Num(112))
ItemStringPrice == Item("intro", Str(100), Num(14), Num(26), Num(140))
ItemUnnamed == Item("", Num(100), Num(14), Num(26), Num(140))
ItemHuge == Item("intro", Num(MaxInteger), Num(1), Num(0), Num(MaxInteger + 1))
ItemLongName == Item(LongName, Num(100), Num(14), Num(26), Num(140))

Batches == {<<ItemIntro>>, <<ItemIntro2>>, <<ItemIntro, ItemReview>>,
            <<ItemMismatch>>, <<ItemIntro, ItemIntro2>>, <<>>}

-----------------------------------------------------------------------------
(* The booking status state machine.  No handler of the repository writes  *)
(* bookings.status after the insert: the transitions are driven by         *)
(* external actors, along the documented state machine.                    *)

validTransition(from, to) ==
    \/ (from = "pending" /\ to = "confirmed")
    \/ (from = "confirmed" /\ to = "completed")
    \/ (from \in {"pending", "confirmed"}
        /\ to \in {"cancelled_by_student", "cancelled_by_mentor"})
    \/ (from = "confirmed" /\ to = "no_show")

ExternalTransition(i, to) ==
    /\ i \in DOMAIN bookings
    /\ validTransition(bookings[i].status, to)
    /\ bookings' = [bookings EXCEPT ![i].status = to]
    /\ UNCHANGED <<mentor_services, nextServiceId, mentor_availability, now, handlerVars, dashboardVars, restVars>>

-----------------------------------------------------------------------------
(* PUT /dashboard/mentor/availability.  A string is a sequence of           *)
(* one-character strings.                                                   *)

Digits == {"0", "1", "2", "3", "4", "5", "6", "7", "8", "9"}

Letters == {"A", "B", "C", "D", "E", "F", "G", "H", "I", "J", "K", "L", "M",
            "N", "O", "P", "Q", "R", "S", "T", "U", "V", "W", "X", "Y", "Z",
            "a", "b", "c", "d", "e", "f", "g", "h", "i", "j", "k", "l", "m",
            "n", "o", "p", "q", "r", "s", "t", "u", "v", "w", "x", "y", "z"}

\* the UTF-16 code unit of a character of a time string: '0' = 48 .. ':' = 58
CodeUnit(c) ==
    LET table == <<"0", "1", "2", "3", "4", "5", "6", "7", "8", "9", ":">>
    IN 47 + (CHOOSE i \in DOMAIN table : table[i] = c)

\* the collation order of localeCompare: punctuation sorts before the digits
CollationKey(c) == IF c = ":" THEN 0 ELSE CodeUnit(c)

RECURSIVE LessFrom(_, _, _)
\* a < b from position i on, for sequences of numbers; a proper prefix is less
LessFrom(a, b, i) ==
    IF i > Len(b) THEN FALSE
    ELSE IF i > Len(a) THEN TRUE
    ELSE IF a[i] # b[i] THEN a[i] < b[i]
    ELSE LessFrom(a, b, i + 1)

\* a <= b by code units: the comparison with its equality case turned around
StrLessOrEqual(a, b) ==
    \/ a = b
    \/ LessFrom([i \in DOMAIN a |-> CodeUnit(a[i])], [i \in DOMAIN b |-> CodeUnit(b[i])], 1)

\* a < b on JavaScript strings: by code units
StrLess(a, b) ==
    LessFrom([i \in DOMAIN a |-> CodeUnit(a[i])], [i \in DOMAIN b |-> CodeUnit(b[i])], 1)

\* a.localeCompare(b) < 0
LocaleLess(a, b) ==
    LessFrom([i \in DOMAIN a |-> CollationKey(a[i])], [i \in DOMAIN b |-> CollationKey(b[i])], 1)

\* /^[0-2][0-9]:[0-5][0-9]$/: the hour alternation widened
timeRegexAnyHour(t) ==
    /\ Len(t) = 5
    /\ t[1] \in {"0", "1", "2"}
    /\ t[2] \in Digits
    /\ t[3] = ":"
    /\ t[4] \in {"0", "1", "2", "3", "4", "5"}
    /\ t[5] \in Digits

\* the pattern with an optional first hour digit: ([01]?[0-9]|2[0-3]):[0-5][0-9]
timeRegexOptionalTens(t) ==
    \/ /\ Len(t) = 5
       /\ \/ (t[1] \in {"0", "1"} /\ t[2] \in Digits)
          \/ (t[1] = "2" /\ t[2] \in {"0", "1", "2", "3"})
       /\ t[3] = ":"
       /\ t[4] \in {"0", "1", "2", "3", "4", "5"}
       /\ t[5] \in Digits
    \/ /\ Len(t) = 4
       /\ t[1] \in Digits
       /\ t[2] = ":"
       /\ t[3] \in {"0", "1", "2", "3", "4", "5"}
       /\ t[4] \in Digits

\* /^([0-1][0-9]|2[0-3]):[0-5][0-9]$/
timeRegex(t) ==
    /\ Len(t) = 5
    /\ \/ (t[1] \in {"0", "1"} /\ t[2] \in Digits)
       \/ (t[1] = "2" /\ t[2] \in {"0", "1", "2", "3"})
    /\ t[3] = ":"
    /\ t[4] \in {"0", "1", "2", "3", "4", "5"}
    /\ t[5] \in Digits

\* /^[A-Za-z]+\/[A-Za-z_]+$/
timezoneRegex(tz) ==
    \E k \in DOMAIN tz :
        /\ tz[k] = "/"
        /\ 1 < k
        /\ k < Len(tz)
        /\ \A i \in 1..(k - 1) : tz[i] \in Letters
        /\ \A i \in (k + 1)..Len(tz) : tz[i] \in Letters \cup {"_"}

validDays == <<"monday", "tuesday", "wednesday", "thursday", "friday", "saturday", "sunday">>

NoError == [message |-> "", day |-> ""]
DayFailure(msg, day) == [message |-> msg, day |-> day]

RECURSIVE SlotsErrorFormatFirst(_, _, _)
\* the slot checks with the format test moved before the completeness test
SlotsErrorFormatFirst(slots, day, i) ==
    IF i > Len(slots) THEN NoError
    ELSE IF ~timeRegex(slots[i].start) \/ ~timeRegex(slots[i].end)
      THEN DayFailure("Invalid time format. Expected HH:MM (24-hour format)", day)
    ELSE IF slots[i].start = <<>> \/ slots[i].end = <<>>
      THEN DayFailure("Each time slot must have start and end times", day)
    ELSE IF ~StrLess(slots[i].start, slots[i].end)
      THEN DayFailure("Start time must be before end time", day)
    ELSE SlotsErrorFormatFirst(slots, day, i + 1)

RECURSIVE SlotsError(_, _, _)
\* for (const slot of schedule[day]): the first failing check of the first
\* failing slot, from slot i on
SlotsError(slots, day, i) ==
    IF i > Len(slots) THEN NoError
    ELSE IF slots[i].start = <<>> \/ slots[i].end = <<>>
      THEN DayFailure("Each time slot must have start and end times", day)
    ELSE IF ~timeRegex(slots[i].start) \/ ~timeRegex(slots[i].end)
      THEN DayFailure("Invalid time format. Expected HH:MM (24-hour format)", day)
    ELSE IF ~StrLess(slots[i].start, slots[i].end)
      THEN DayFailure("Start time must be before end time", day)
    ELSE SlotsError(slots, day, i + 1)

\* the copy of the day's slots reversed instead of sorted
sortedSlotsReversed(slots) == [i \in DOMAIN slots |-> slots[Len(slots) + 1 - i]]

\* the copy of the day's slots left in submitted order: the sort omitted
sortedSlotsAsSubmitted(slots) == slots

RECURSIVE sortedSlots(_)
\* [...schedule[day]].sort((a, b) => a.start.localeCompare(b.start)): a stable
\* sort, here by inserting the last slot into the sorted rest
sortedSlots(slots) ==
    IF slots = <<>> THEN <<>>
    ELSE LET rest == sortedSlots(SubSeq(slots, 1, Len(slots) - 1))
             last == slots[Len(slots)]
             k == Cardinality({i \in DOMAIN rest : ~LocaleLess(last.start, rest[i].start)})
         IN SubSeq(rest, 1, k) \o <<last>> \o SubSeq(rest, k + 1, Len(rest))

\* sortedSlots[i].end > sortedSlots[i + 1].start for some i
HasOverlap(sorted) ==
    \E i \in 1..(Len(sorted) - 1) : StrLess(sorted[i + 1].start, sorted[i].end)

\* the checks of one day
DayError(value, day) ==
    IF ~value.isArray
      THEN DayFailure("Schedule must include the day as an array", day)
    ELSE IF SlotsError(value.slots, day, 1) # NoError
      THEN SlotsError(value.slots, day, 1)
    ELSE IF HasOverlap(sortedSlots(value.slots))
      THEN DayFailure("Overlapping time slots detected", day)
    ELSE NoError

RECURSIVE ScheduleErrorFrom(_, _)
\* for (const day of validDays): the error of the first failing day, from day d on
ScheduleErrorFrom(schedule, d) ==
    IF d > Len(validDays) THEN NoError
    ELSE IF DayError(schedule[validDays[d]], validDays[d]) # NoError
      THEN DayError(schedule[validDays[d]], validDays[d])
    ELSE ScheduleErrorFrom(schedule, d + 1)

ScheduleError(schedule) == ScheduleErrorFrom(schedule, 1)

\* a row of mentor_availability; the schedule column holds JSON.stringify(schedule)
NoSchedule == [d \in {validDays[i] : i \in DOMAIN validDays} |-> [isArray |-> FALSE, slots |-> <<>>]]
NoAvailability == [present |-> FALSE, mentor_id |-> "", timezone |-> <<>>, schedule |-> NoSchedule]
AvailabilityRow(mentorId, timezone, schedule) ==
    [present |-> TRUE, mentor_id |-> mentorId, timezone |-> timezone, schedule |-> schedule]

\* a handler that holds no request
NoSave == [state |-> "idle",
           req |-> [user |-> NoToken, timezone |-> <<>>, hasSchedule |-> FALSE, schedule |-> NoSchedule],
           resp |-> [status |-> 0, message |-> "", day |-> "", data |-> NoAvailability]]

NoAvailabilityReq == [user |-> NoToken, timezone |-> <<>>, hasSchedule |-> FALSE,
                      schedule |-> NoSchedule]

AvailabilityReply(code, err) ==
    [status |-> code, message |-> err.message, day |-> err.day, data |-> NoAvailability]

\* INSERT INTO mentor_availability ... with the ON CONFLICT clause left out
upsertQueryInsertOnly(mentorId, timezone, schedule) ==
    mentor_availability \cup {AvailabilityRow(mentorId, timezone, schedule)}

\* ... ON CONFLICT (mentor_id) DO UPDATE keeping the stored slots of every day
\* the new document leaves empty
upsertQueryMergeDays(mentorId, timezone, schedule) ==
    IF \E row \in mentor_availability : row.mentor_id = mentorId
      THEN {IF row.mentor_id = mentorId
              THEN AvailabilityRow(mentorId, timezone,
                       [d \in DOMAIN schedule |->
                           IF schedule[d].slots = <<>> THEN row.schedule[d] ELSE schedule[d]])
              ELSE row : row \in mentor_availability}
      ELSE mentor_availability \cup {AvailabilityRow(mentorId, timezone, schedule)}

\* INSERT INTO mentor_availability ... ON CONFLICT (mentor_id) DO UPDATE SET
\* timezone = EXCLUDED.timezone, schedule = EXCLUDED.schedule: one statement
upsertQuery(mentorId, timezone, schedule) ==
    IF \E row \in mentor_availability : row.mentor_id = mentorId
      THEN {IF row.mentor_id = mentorId
              THEN AvailabilityRow(mentorId, timezone, schedule)
              ELSE row : row \in mentor_availability}
      ELSE mentor_availability \cup {AvailabilityRow(mentorId, timezone, schedule)}

\* RETURNING *: the row of the mentor after the statement
Returning(table, mentorId) == CHOOSE row \in table : row.mentor_id = mentorId

\* the response of the handler to request r
AvailabilityResponse(r) ==
    IF ~authenticateUser(r.user)
      THEN AvailabilityReply(401, DayFailure("Not authenticated", ""))
    ELSE IF ~requireMentor(r.user)
      THEN AvailabilityReply(403, DayFailure("Access denied. Mentor only.", ""))
    ELSE IF r.timezone = <<>> \/ ~r.hasSchedule
      THEN AvailabilityReply(400, DayFailure("Timezone and schedule are required", ""))
    ELSE IF ~timezoneRegex(r.timezone)
      THEN AvailabilityReply(400, DayFailure("Invalid timezone format", ""))
    ELSE IF ScheduleError(r.schedule) # NoError
      THEN AvailabilityReply(400, ScheduleError(r.schedule))
    ELSE [status |-> 200, message |-> "Availability saved successfully", day |-> "",
          data |-> Returning(upsertQuery(r.user.id, r.timezone, r.schedule), r.user.id)]

\* the whole handler: the checks, then the one upsert query
PutAvailability(r) ==
    /\ availabilityReq' = r
    /\ availabilityResp' = AvailabilityResponse(r)
    /\ mentor_availability' =
          IF AvailabilityResponse(r).status = 200
            THEN upsertQuery(r.user.id, r.timezone, r.schedule)
            ELSE mentor_availability
    /\ UNCHANGED <<bookings, mentor_services, nextServiceId, now, handlerVars, restVars, saves, tx>>

\* The same handler as the steps concurrent requests interleave at.  The
\* middleware and the checks run without an await: the request is answered,
\* or the handler suspends at its one query.
ReceiveAvailability(p, r) ==
    /\ saves[p].state = "idle"
    /\ saves' = [saves EXCEPT ![p] =
                    IF AvailabilityResponse(r).status = 200
                      THEN [state |-> "upsertQuery", req |-> r, resp |-> NoSave.resp]
                      ELSE [state |-> "idle", req |-> r, resp |-> AvailabilityResponse(r)]]
    /\ UNCHANGED <<storeVars, now, handlerVars, restVars, availabilityReq, availabilityResp, tx>>

\* await pool.query(upsertQuery, ...): the statement runs and the handler
\* answers with the row it returns
UpsertAvailability(p) ==
    /\ saves[p].state = "upsertQuery"
    /\ mentor_availability' =
          upsertQuery(saves[p].req.user.id, saves[p].req.timezone, saves[p].req.schedule)
    /\ saves' = [saves EXCEPT ![p] =
                    [state |-> "idle", req |-> saves[p].req,
                     resp |-> AvailabilityResponse(saves[p].req)]]
    /\ UNCHANGED <<bookings, mentor_services, nextServiceId, now, handlerVars, restVars,
                   availabilityReq, availabilityResp, tx>>

\* the requests the callers submit
Time(h1, h2, m1, m2) == <<h1, h2, ":", m1, m2>>
Slot(start, end) == [start |-> start, end |-> end]
Array(slots) == [isArray |-> TRUE, slots |-> slots]
NotAnArray == [isArray |-> FALSE, slots |-> <<>>]

EmptyWeek == [d \in {validDays[i] : i \in DOMAIN validDays} |-> Array(<<>>)]

Slot0910 == Slot(Time("0", "9", "0", "0"), Time("1", "0", "0", "0"))
Slot1011 == Slot(Time("1", "0", "0", "0"), Time("1", "1", "0", "0"))
Slot0930 == Slot(Time("0", "9", "3", "0"), Time("1", "0", "3", "0"))

ScheduleInputs ==
    {EmptyWeek,
     [EmptyWeek EXCEPT !["monday"] = Array(<<Slot0910>>)],
     [EmptyWeek EXCEPT !["monday"] = Array(<<Slot1011, Slot0910>>),
                       !["sunday"] = Array(<<Slot0930>>)],
     [EmptyWeek EXCEPT !["monday"] = Array(<<Slot0910, Slot0930>>)],
     [EmptyWeek EXCEPT !["tuesday"] = NotAnArray],
     [EmptyWeek EXCEPT !["monday"] = Array(<<Slot(<<>>, Time("1", "0", "0", "0"))>>)],
     [EmptyWeek EXCEPT !["friday"] = Array(<<Slot(<<"9", ":", "0", "0">>, Time("1", "0", "0", "0"))>>)],
     [EmptyWeek EXCEPT !["friday"] = Array(<<Slot(Time("0", "9", "0", "0"), Time("2", "4", "0", "0"))>>)],
     [EmptyWeek EXCEPT !["wednesday"] = Array(<<Slot(Time("1", "0", "0", "0"), Time("0", "9", "0", "0"))>>)],
     [EmptyWeek EXCEPT !["wednesday"] = Array(<<Slot(Time("0", "9", "0", "0"), Time("0", "9", "0", "0"))>>)],
     [EmptyWeek EXCEPT !["monday"] = Array(<<Slot0910>>),
                       !["sunday"] = Array(<<Slot0930, Slot1011>>)]}

TimezoneInputs ==
    {<<>>,
     <<"U", "T", "C">>,
     <<"E", "t", "c", "/", "G", "M", "T", "+", "4">>,
     <<"A", "s", "i", "a", "/", "B", "a", "k", "u">>,
     <<"U", "S", "/", "E", "a", "s", "t", "_", "I", "n", "d", "i", "a", "n", "a">>}

\* mentors submit every combination; the other callers, who never get past
\* the middleware, submit one request that would otherwise be saved
AvailabilityRequests ==
    {[user |-> Token(u), timezone |-> tz, hasSchedule |-> TRUE, schedule |-> sch] :
        u \in {x \in users : x.user_type = "mentor"}, tz \in TimezoneInputs, sch \in ScheduleInputs}
    \cup {[user |-> Token(u), timezone |-> tz, hasSchedule |-> FALSE, schedule |-> NoSchedule] :
             u \in {x \in users : x.user_type = "mentor"}, tz \in TimezoneInputs}
    \cup {[user |-> t, timezone |-> <<"A", "s", "i", "a", "/", "B", "a", "k", "u">>,
           hasSchedule |-> TRUE, schedule |-> EmptyWeek] : t \in Tokens}

\* the schedules the validator is run on: monday and friday hold every list
\* of slots up to a length, the other days are empty
Slot0909 == Slot(Time("0", "9", "0", "0"), Time("0", "9", "3", "0"))
Slot1112 == Slot(Time("1", "1", "0", "0"), Time("1", "2", "0", "0"))
SlotInverted == Slot(Time("1", "0", "0", "0"), Time("0", "9", "0", "0"))
SlotZeroLength == Slot(Time("0", "9", "3", "0"), Time("0", "9", "3", "0"))
SlotIncomplete == Slot(<<>>, Time("1", "0", "0", "0"))
SlotBadFormat == Slot(Time("0", "9", "0", "0"), Time("2", "4", "0", "0"))

SlotPool == {Slot0910, Slot1011, Slot0930, Slot0909, Slot1112,
             SlotInverted, SlotZeroLength, SlotIncomplete, SlotBadFormat}

DayValues(n) ==
    {NotAnArray} \cup {Array(slots) : slots \in UNION {[1..k -> SlotPool] : k \in 0..n}}

ValidatorRequests ==
    {[user |-> Token(CHOOSE u \in users : u.id = "m1"),
      timezone |-> <<"A", "s", "i", "a", "/", "B", "a", "k", "u">>,
      hasSchedule |-> TRUE,
      schedule |-> [EmptyWeek EXCEPT !["monday"] = mon, !["friday"] = fri]] :
        mon \in DayValues(MaxSlots), fri \in DayValues(1)}

\* the requests of concurrent saves: one mentor's documents, one of them
\* refused, and a document of the other mentor
ConcurrentRequests ==
    {[user |-> Token(CHOOSE u \in users : u.id = "m1"), timezone |-> tz,
      hasSchedule |-> TRUE, schedule |-> sch] :
        tz \in {<<"A", "s", "i", "a", "/", "B", "a", "k", "u">>,
                <<"U", "S", "/", "E", "a", "s", "t", "_", "I", "n", "d", "i", "a", "n", "a">>},
        sch \in {EmptyWeek,
                 [EmptyWeek EXCEPT !["monday"] = Array(<<Slot0910>>)],
                 [EmptyWeek EXCEPT !["monday"] = Array(<<Slot1011>>),
                                   !["sunday"] = Array(<<Slot0930>>)],
                 [EmptyWeek EXCEPT !["sunday"] = Array(<<Slot1011, Slot0910>>)],
                 [EmptyWeek EXCEPT !["monday"] = Array(<<Slot0910, Slot0930>>)]}}
    \cup {[user |-> Token(CHOOSE u \in users : u.id = "m2"),
           timezone |-> <<"A", "s", "i", "a", "/", "B", "a", "k", "u">>,
           hasSchedule |-> TRUE,
           schedule |-> [EmptyWeek EXCEPT !["monday"] = Array(<<Slot0910>>)]]}

-----------------------------------------------------------------------------
(* GET /bookings/booked-times/:mentorId and GET /bookings/check/:mentorId  *)

\* a UTC calendar day, in milliseconds
DayMs == 24 * 60 * MinuteMs

\* req.query.date: absent, a string Date cannot parse, or YYYY-MM-DD, the
\* day-th day after 1970-01-01
DayMissing == [kind |-> "missing", day |-> 0]
DayGarbage == [kind |-> "garbage", day |-> 0]
Day(n) == [kind |-> "day", day |-> n]

\* new Date(date + 'T00:00:00.000Z')
startOfDay(date) == date.day * DayMs

\* new Date(date + 'T23:59:59.999Z')
endOfDay(date) == date.day * DayMs + DayMs - 1

\* SELECT session_date, duration_minutes FROM bookings WHERE mentor_id = $1
\* AND status != 'cancelled' AND session_date >= $2 AND session_date <= $3
bookedTimesQuery(mentorId, from, to) ==
    {i \in DOMAIN bookings :
        /\ bookings[i].mentor_id = mentorId
        /\ NotCancelledFilter(bookings[i])
        /\ bookings[i].session_date >= from
        /\ bookings[i].session_date <= to}

\* ORDER BY session_date: the orders in which the rows may come back
OrderBySessionDate(ids) ==
    {rows \in [1..Cardinality(ids) -> ids] :
        /\ \A i, j \in DOMAIN rows : rows[i] = rows[j] => i = j
        /\ \A i, j \in DOMAIN rows :
              i < j => bookings[rows[i]].session_date <= bookings[rows[j]].session_date}

\* result.rows.map(row => ({sessionDate, durationMinutes}))
bookedSlots(rows) ==
    [i \in DOMAIN rows |-> [sessionDate |-> bookings[rows[i]].session_date,
                            durationMinutes |-> bookings[rows[i]].duration_minutes]]

\* SELECT COUNT(*) FROM bookings WHERE user_id = $1 AND mentor_id = $2
\* AND status != 'cancelled'
booking_count(userId, mentorId) ==
    Cardinality({i \in DOMAIN bookings :
                    /\ bookings[i].user_id = userId
                    /\ bookings[i].mentor_id = mentorId
                    /\ NotCancelledFilter(bookings[i])})

LookupReply(route, tok, mentorId, date, code, rows, has) ==
    [route |-> route, user |-> tok, mentorId |-> mentorId, date |-> date,
     status |-> code, rows |-> rows, bookedSlots |-> bookedSlots(rows),
     hasBooking |-> has]

NoLookup == LookupReply("", NoToken, "", DayMissing, 0, <<>>, FALSE)

\* the whole booked-times handler: one query, no write.  A date that Date
\* cannot parse makes toISOString() throw, which is answered 500.
BookedTimes(mentorId, date) ==
    /\ IF date.kind = "missing"
         THEN lookup' = LookupReply("booked-times", NoToken, mentorId, date, 400, <<>>, FALSE)
       ELSE IF date.kind = "garbage"
         THEN lookup' = LookupReply("booked-times", NoToken, mentorId, date, 500, <<>>, FALSE)
       ELSE \E rows \in OrderBySessionDate(
                           bookedTimesQuery(mentorId, startOfDay(date), endOfDay(date))) :
               lookup' = LookupReply("booked-times", NoToken, mentorId, date, 200, rows, FALSE)
    /\ UNCHANGED <<storeVars, now, handlerVars, dashboardVars, accountVars, documentVars>>

\* the whole check handler: authenticateUser, one query, no write
CheckBooking(tok, mentorId) ==
    /\ IF ~authenticateUser(tok)
         THEN lookup' = LookupReply("check", tok, mentorId, DayMissing, 401, <<>>, FALSE)
         ELSE lookup' = LookupReply("check", tok, mentorId, DayMissing, 200, <<>>,
                                    booking_count(tok.id, mentorId) > 0)
    /\ UNCHANGED <<storeVars, now, handlerVars, dashboardVars, accountVars, documentVars>>

-----------------------------------------------------------------------------
(* Registration: services/authService.js over dal/userDal.js.  pool.query  *)
(* runs its statement on a connection of its own and commits it at once;   *)
(* client.query runs it inside the transaction the client has open.        *)

\* email.toLowerCase()
toLowerCase(email) == IF email = "New@x" THEN "new@x" ELSE email

\* the email of the users the table holds from the start
EmailOf(id) == CASE id = "m1" -> "m1@x" [] id = "m2" -> "m2@x" [] OTHER -> "s1@x"

\* uuid_generate_v4() for users: the n-th fresh id
FreshUserId(n) == CASE n = 1 -> "u1" [] n = 2 -> "u2" [] n = 3 -> "u3" [] OTHER -> "u4"

\* a value the INET column ip_address accepts
InetValid(ip) == ip \in {"203.0.113.7"}

NoRegistrationReq == [kind |-> "", email |-> "", agreeToMarketing |-> FALSE, ip |-> ""]

\* the rows a client has written in its open transaction
NoWork == [users |-> {}, mentor_details |-> {}]

NoRegistration == [state |-> "idle", req |-> NoRegistrationReq, newUser |-> "",
                   work |-> NoWork, status |-> 0, error |-> ""]

\* SELECT id FROM users WHERE email = $1
userExistsByEmail(email) == \E u \in users_table : u.email = toLowerCase(email)

\* the row of INSERT INTO users (...) VALUES ($1, ..., $9)
UserRow(id, r, userType) == [id |-> id, email |-> toLowerCase(r.email), user_type |-> userType]

\* users.email UNIQUE, over the committed rows and the client's own
EmailTaken(email) ==
    \E u \in users_table \cup registration.work.users : u.email = toLowerCase(email)

\* the controller's catch: 500, whatever the error
RegistrationFailed(code) ==
    registration' = [registration EXCEPT !.state = "idle", !.work = NoWork,
                                         !.status = 500, !.error = code]

\* registerStudent / registerMentor up to the first statement: the
\* existence check, then pool.connect() and BEGIN (for a mentor inside
\* createMentor), which write nothing
Register(r) ==
    /\ registration.state = "idle"
    /\ IF userExistsByEmail(r.email)
         THEN registration' = [NoRegistration EXCEPT !.req = r, !.status = 409]
         ELSE /\ Cardinality(users_table) < Cardinality(users) + MaxRegistrations
              /\ registration' = [NoRegistration EXCEPT
                                     !.req = r,
                                     !.state = IF r.kind = "student" THEN "createStudent"
                                                                     ELSE "insertUser"]
    /\ UNCHANGED <<users_table, mentor_details, marketing_consent_history, bookingVars>>

\* createStudent(userData): its second argument, the client, is not a
\* parameter of the function; the INSERT runs on pool.query and is committed
CreateStudent ==
    /\ registration.state = "createStudent"
    /\ LET id == FreshUserId(Cardinality(users_table) - Cardinality(users) + 1) IN
         IF EmailTaken(registration.req.email)
           THEN /\ RegistrationFailed("23505")
                /\ users_table' = users_table
           ELSE /\ users_table' = users_table \cup {UserRow(id, registration.req, "user")}
                /\ registration' = [registration EXCEPT !.state = "recordMarketingConsent",
                                                        !.newUser = id]
    /\ UNCHANGED <<mentor_details, marketing_consent_history, bookingVars>>

\* recordMarketingConsent(userId, consentData): the client is again not a
\* parameter; the INSERT runs on pool.query.  An ip_address that is no INET
\* value raises invalid_text_representation
RecordMarketingConsent ==
    /\ registration.state = "recordMarketingConsent"
    /\ IF InetValid(registration.req.ip)
         THEN /\ marketing_consent_history' = marketing_consent_history \cup
                    {[user_id |-> registration.newUser,
                      consent_given |-> registration.req.agreeToMarketing]}
              /\ registration' = [registration EXCEPT !.state = "commit"]
         ELSE /\ RegistrationFailed("22P02")
              /\ marketing_consent_history' = marketing_consent_history
    /\ UNCHANGED <<users_table, mentor_details, bookingVars>>

\* createMentor: client.query(INSERT INTO users ...)
InsertUser ==
    /\ registration.state = "insertUser"
    /\ LET id == FreshUserId(Cardinality(users_table) - Cardinality(users) + 1) IN
         IF EmailTaken(registration.req.email)
           THEN RegistrationFailed("23505")
           ELSE registration' = [registration EXCEPT
                                    !.state = "insertMentorDetails",
                                    !.newUser = id,
                                    !.work.users = {UserRow(id, registration.req, "mentor")}]
    /\ UNCHANGED <<users_table, mentor_details, marketing_consent_history, bookingVars>>

\* createMentor: client.query(INSERT INTO mentor_details ...)
InsertMentorDetails ==
    /\ registration.state = "insertMentorDetails"
    /\ registration' = [registration EXCEPT
                           !.state = "commit",
                           !.work.mentor_details = {[user_id |-> registration.newUser,
                                                     application_status |-> "pending"]}]
    /\ UNCHANGED <<users_table, mentor_details, marketing_consent_history, bookingVars>>

\* client.query('COMMIT'): the client's work becomes visible; the service
\* returns and the controller answers 201.  createMentor takes no consent
\* data: registerMentor's third argument is dropped
CommitRegistration ==
    /\ registration.state = "commit"
    /\ users_table' = users_table \cup registration.work.users
    /\ mentor_details' = mentor_details \cup registration.work.mentor_details
    /\ registration' = [registration EXCEPT !.state = "idle", !.work = NoWork,
                                            !.status = 201]
    /\ UNCHANGED <<marketing_consent_history, bookingVars>>

\* a statement fails for a reason of the store (connection lost, statement
\* timeout): catch { ROLLBACK; throw }, which undoes the client's work only
RegistrationQueryFails ==
    /\ registration.state # "idle"
    /\ RegistrationFailed("08006")
    /\ UNCHANGED <<users_table, mentor_details, marketing_consent_history, bookingVars>>

RegistrationRequests ==
    {[kind |-> k, email |-> e, agreeToMarketing |-> a, ip |-> ip] :
        k \in {"student", "mentor"}, e \in {"new@x", "New@x", "two@x", "s1@x"},
        a \in BOOLEAN, ip \in {"203.0.113.7", "203.0.113.7, 10.0.0.1"}}

-----------------------------------------------------------------------------
(* routes/dashboard.js: POST /dashboard/mentor/confirm-document *)

\* req.body.documentType: absent (""), one of the two types, or another string
DocumentTypes == {"", "individual_entrepreneur", "private_individual", "passport"}

\* !documentType || ![...].includes(documentType)
InvalidDocumentType(t) == t = "" \/ t \notin {"individual_entrepreneur", "private_individual"}

ConfirmReply(code, msg, already) ==
    [status |-> code, message |-> msg, alreadyConfirmed |-> already]

AlreadyConfirmedReply ==
    ConfirmReply(400, "Document type has already been confirmed. Please contact support to make changes.", TRUE)

\* a handler that holds no request
NoConfirm == [state |-> "idle",
              req |-> [user |-> NoToken, documentType |-> ""],
              resp |-> ConfirmReply(0, "", FALSE)]

\* SELECT application_status FROM mentor_details WHERE user_id = $1
applicationStatusQuery(mentorId) == {d \in mentor_details : d.user_id = mentorId}

\* SELECT id FROM mentor_document_confirmations WHERE mentor_id = $1
existingDoc(mentorId) == {c \in mentor_document_confirmations : c.mentor_id = mentorId}

\* the table without its UNIQUE(mentor_id) constraint
UniqueMentorIdOff(mentorId) == TRUE

\* UNIQUE(mentor_id) of table mentor_document_confirmations
UniqueMentorId(mentorId) == ~\E c \in mentor_document_confirmations : c.mentor_id = mentorId

\* res.status(...).json(...): the handler returns
ConfirmRespond(p, r) ==
    confirms' = [confirms EXCEPT ![p].state = "idle", ![p].resp = r]

\* the request arrives; middleware and the document type validation run
ReceiveConfirm(p, r) ==
    /\ confirms[p].state = "idle"
    /\ confirms' = [confirms EXCEPT ![p] =
          IF ~authenticateUser(r.user)
            THEN [state |-> "idle", req |-> r, resp |-> ConfirmReply(401, "Not authenticated", FALSE)]
          ELSE IF ~requireMentor(r.user)
            THEN [state |-> "idle", req |-> r,
                  resp |-> ConfirmReply(403, "Access denied. Mentor only.", FALSE)]
          ELSE IF InvalidDocumentType(r.documentType)
            THEN [state |-> "idle", req |-> r,
                  resp |-> ConfirmReply(400, "Invalid document type", FALSE)]
          ELSE [state |-> "statusQuery", req |-> r, resp |-> ConfirmReply(0, "", FALSE)]]
    /\ UNCHANGED <<mentor_document_confirmations, bookingSideVars, accountVars>>

\* the application status is read; only pending mentors go on
ApplicationStatusQuery(p) ==
    /\ confirms[p].state = "statusQuery"
    /\ LET rows == applicationStatusQuery(confirms[p].req.user.id) IN
         IF rows = {}
           THEN ConfirmRespond(p, ConfirmReply(404, "Mentor details not found", FALSE))
         ELSE IF (CHOOSE d \in rows : TRUE).application_status # "pending"
           THEN ConfirmRespond(p, ConfirmReply(400,
                   "Document confirmation is only available for pending applications", FALSE))
         ELSE confirms' = [confirms EXCEPT ![p].state = "existingQuery"]
    /\ UNCHANGED <<mentor_document_confirmations, bookingSideVars, accountVars>>

\* the existing confirmation is looked up
ExistingDocQuery(p) ==
    /\ confirms[p].state = "existingQuery"
    /\ IF existingDoc(confirms[p].req.user.id) # {}
         THEN ConfirmRespond(p, AlreadyConfirmedReply)
         ELSE confirms' = [confirms EXCEPT ![p].state = "insert"]
    /\ UNCHANGED <<mentor_document_confirmations, bookingSideVars, accountVars>>

\* INSERT INTO mentor_document_confirmations; error.code === '23505' is
\* answered like an existing confirmation
InsertConfirmation(p) ==
    /\ confirms[p].state = "insert"
    /\ LET mentorId == confirms[p].req.user.id IN
         IF UniqueMentorId(mentorId)
           THEN /\ mentor_document_confirmations' = mentor_document_confirmations \cup
                      {[mentor_id |-> mentorId,
                        document_type |-> confirms[p].req.documentType,
                        confirmed |-> TRUE]}
                /\ ConfirmRespond(p, ConfirmReply(200, "Document type confirmed successfully", FALSE))
           ELSE /\ mentor_document_confirmations' = mentor_document_confirmations
                /\ ConfirmRespond(p, AlreadyConfirmedReply)
    /\ UNCHANGED <<bookingSideVars, accountVars>>

ConfirmRequests ==
    {[user |-> t, documentType |-> d] : t \in Tokens, d \in DocumentTypes}

\* the variables of the handlers that are not part of the booking service
InitRest ==
    /\ lookup = NoLookup
    /\ users_table = {[id |-> u.id, email |-> EmailOf(u.id), user_type |-> u.user_type] :
                         u \in users}
    /\ mentor_details = {[user_id |-> u.id, application_status |-> "pending"] :
                            u \in {x \in users : x.user_type = "mentor"}}
    /\ marketing_consent_history = {[user_id |-> "s1", consent_given |-> FALSE]}
    /\ registration = NoRegistration
    /\ mentor_document_confirmations = {}
    /\ confirms = [p \in Procs |-> NoConfirm]

-----------------------------------------------------------------------------
(* The booking service: requests, service replacements, the clock *)

Init ==
    /\ bookings = <<>>
    /\ mentor_services = {}
    /\ nextServiceId = 1
    /\ mentor_availability = {}
    /\ now = 0
    /\ pc = [p \in Procs |-> "idle"]
    /\ req = [p \in Procs |-> NoReq]
    /\ service = [p \in Procs |-> NoService]
    /\ resp = [p \in Procs |-> NoResp]
    /\ availabilityReq = NoAvailabilityReq
    /\ availabilityResp = AvailabilityReply(0, NoError)
    /\ saves = [p \in Procs |-> NoSave]
    /\ tx = NoTx
    /\ InitRest

\* one step of the POST /bookings handler p, for a request drawn from R
Handler(p, R) ==
    \/ \E r \in R : Begin(p, r)
    \/ MentorCheck(p)
    \/ ServiceQuery(p)
    \/ ValidateDate(p)
    \/ OverlapCheck(p)
    \/ Insert(p)

\* the service replacements that run beside the bookings
BookingBatches == {<<ItemIntro>>, <<ItemIntro2>>, <<ItemMismatch>>,
                   <<ItemIntro, ItemIntro2>>}

ReplaceServices(B) == \E t \in Tokens, batch \in B : PutServices(t, batch)

StatusChange == \E i \in 1..MaxBookings, to \in BookingStatus : ExternalTransition(i, to)

(* Requests of every shape, handled one at a time, beside service           *)
(* replacements and the clock.                                              *)
Next ==
    \/ Handler("p1", Requests)
    \/ ReplaceServices(BookingBatches)
    \/ Tick

Spec == Init /\ [][Next]_vars

(* Well-formed requests handled one at a time, while external actors move   *)
(* the bookings through their status state machine; the clock stands still. *)
NextLifecycle ==
    \/ Handler("p1", WellFormedRequests)
    \/ ReplaceServices({<<ItemIntro>>})
    \/ StatusChange

SpecLifecycle == Init /\ [][NextLifecycle]_vars

(* Two handlers whose queries interleave freely.                            *)
NextConcurrent ==
    \/ \E p \in Procs : Handler(p, WellFormedRequests)
    \/ ReplaceServices({<<ItemIntro>>})
    \/ Tick

SpecConcurrent == Init /\ [][NextConcurrent]_vars

(* The availability store under the saves of every caller.                  *)
NextAvailability == \E r \in AvailabilityRequests : PutAvailability(r)

SpecAvailability == Init /\ [][NextAvailability]_vars

(* Two availability handlers whose queries interleave freely.               *)
NextSaves ==
    \E p \in Procs :
        \/ \E r \in ConcurrentRequests : ReceiveAvailability(p, r)
        \/ UpsertAvailability(p)

SpecSaves == Init /\ [][NextSaves]_vars

(* The services of the mentors under replacements by every caller, the     *)
(* transaction of the handler taken statement by statement.                 *)
ServicesRequests ==
    {[user |-> Token(CHOOSE u \in users : u.id = "m1"), services |-> ServicesArray(b)] :
        b \in {<<ItemIntro>>, <<ItemIntro2, ItemReview>>, <<>>,
               <<ItemMismatch>>, <<ItemReview, ItemMismatch>>, <<ItemHalf>>, <<ItemFree>>,
               <<ItemNegativeFee>>, <<ItemStringPrice>>, <<ItemUnnamed>>,
               <<ItemIntro, ItemIntro2>>, <<ItemReview, ItemHuge>>, <<ItemLongName>>}}
    \cup {[user |-> Token(CHOOSE u \in users : u.id = "m1"), services |-> b] :
             b \in {ServicesMissing, ServicesNotArray}}
    \cup {[user |-> t, services |-> ServicesArray(<<ItemIntro>>)] : t \in Tokens}

NextServices ==
    \/ \E r \in ServicesRequests : ReceiveServices(r)
    \/ DeleteStep
    \/ InsertStep
    \/ CommitStep
    \/ QueryFails

SpecServices == Init /\ [][NextServices]_vars

(* Bookings made one at a time and moved through their statuses, beside   *)
(* the two read handlers.                                                   *)
LookupDates == {DayMissing, DayGarbage, Day(0), Day(1)}

NextLookups ==
    \/ Handler("p1", WellFormedRequests)
    \/ ReplaceServices({<<ItemIntro>>})
    \/ StatusChange
    \/ \E m \in {"m1", "m2"}, d \in LookupDates : BookedTimes(m, d)
    \/ \E t \in Tokens, m \in {"m1", "m2"} : CheckBooking(t, m)

SpecLookups == Init /\ [][NextLookups]_vars

(* The availability and the services of two mentors under the PUTs of     *)
(* every caller.                                                            *)
OwnershipAvailabilityRequests ==
    {[user |-> t, timezone |-> <<"A", "s", "i", "a", "/", "B", "a", "k", "u">>,
      hasSchedule |-> TRUE, schedule |-> sch] :
        t \in Tokens,
        sch \in {[EmptyWeek EXCEPT !["monday"] = Array(<<Slot0910>>)],
                 [EmptyWeek EXCEPT !["sunday"] = Array(<<Slot1011>>)]}}

OwnershipServicesRequests ==
    {[user |-> t, services |-> ServicesArray(b)] :
        t \in Tokens, b \in {<<ItemIntro>>, <<ItemReview>>}}

NextOwnership ==
    \/ \E r \in OwnershipAvailabilityRequests : PutAvailability(r)
    \/ \E r \in OwnershipServicesRequests : ReceiveServices(r)
    \/ DeleteStep
    \/ InsertStep
    \/ CommitStep
    \/ QueryFails

SpecOwnership == Init /\ [][NextOwnership]_vars

(* Registrations of students and mentors, one at a time.                   *)
NextRegistration ==
    \/ \E r \in RegistrationRequests : Register(r)
    \/ CreateStudent
    \/ RecordMarketingConsent
    \/ InsertUser
    \/ InsertMentorDetails
    \/ CommitRegistration
    \/ RegistrationQueryFails

SpecRegistration == Init /\ [][NextRegistration]_vars

(* Document confirmations by two handlers whose queries interleave freely; *)
(* mentor m1 has an application of any status, mentor m2 perhaps none.      *)
ApplicationStatuses == {"pending", "approved", "rejected"}

InitDocuments ==
    /\ bookings = <<>>
    /\ mentor_services = {}
    /\ nextServiceId = 1
    /\ mentor_availability = {}
    /\ now = 0
    /\ pc = [p \in Procs |-> "idle"]
    /\ req = [p \in Procs |-> NoReq]
    /\ service = [p \in Procs |-> NoService]
    /\ resp = [p \in Procs |-> NoResp]
    /\ availabilityReq = NoAvailabilityReq
    /\ availabilityResp = AvailabilityReply(0, NoError)
    /\ saves = [p \in Procs |-> NoSave]
    /\ tx = NoTx
    /\ lookup = NoLookup
    /\ users_table = {[id |-> u.id, email |-> EmailOf(u.id), user_type |-> u.user_type] :
                         u \in users}
    /\ \E s1 \in ApplicationStatuses, rows2 \in {{}} \cup {{s} : s \in ApplicationStatuses} :
          mentor_details = {[user_id |-> "m1", application_status |-> s1]}
                              \cup {[user_id |-> "m2", application_status |-> s] : s \in rows2}
    /\ marketing_consent_history = {[user_id |-> "s1", consent_given |-> FALSE]}
    /\ registration = NoRegistration
    /\ mentor_document_confirmations = {}
    /\ confirms = [p \in Procs |-> NoConfirm]

NextDocuments ==
    \E p \in Procs :
        \/ \E r \in ConfirmRequests : ReceiveConfirm(p, r)
        \/ ApplicationStatusQuery(p)
        \/ ExistingDocQuery(p)
        \/ InsertConfirmation(p)

SpecDocuments == InitDocuments /\ [][NextDocuments]_vars

(* The schedule validator on generated schedules: a mentor holds a request  *)
(* and the handler answers it.                                              *)
InitValidator ==
    /\ bookings = <<>>
    /\ mentor_services = {}
    /\ nextServiceId = 1
    /\ mentor_availability = {}
    /\ now = 0
    /\ pc = [p \in Procs |-> "idle"]
    /\ req = [p \in Procs |-> NoReq]
    /\ service = [p \in Procs |-> NoService]
    /\ resp = [p \in Procs |-> NoResp]
    /\ availabilityReq \in ValidatorRequests
    /\ availabilityResp = AvailabilityReply(0, NoError)
    /\ saves = [p \in Procs |-> NoSave]
    /\ tx = NoTx
    /\ InitRest

NextValidator == PutAvailability(availabilityReq)

SpecValidator == InitValidator /\ [][NextValidator]_vars

(* The comparisons of the validator on pairs of time strings: a mentor     *)
(* holds a request whose monday is the pair as a slot, followed by the      *)
(* slot 12:00-13:00, and the handler answers it.                            *)
ClockTimes ==
    {Time(h1, h2, m1, "0") : h1 \in {"0", "1", "2"}, h2 \in {"0", "2", "3", "9"},
                             m1 \in {"0", "3"}}
    \cup {<<"9", ":", "0", "0">>, <<"9", ":", "3", "0">>}

SlotNoon == Slot(Time("1", "2", "0", "0"), Time("1", "3", "0", "0"))

ClockRequests ==
    {[user |-> Token(CHOOSE u \in users : u.id = "m1"),
      timezone |-> <<"A", "s", "i", "a", "/", "B", "a", "k", "u">>,
      hasSchedule |-> TRUE,
      schedule |-> [EmptyWeek EXCEPT !["monday"] = Array(<<Slot(a, b), SlotNoon>>)]] :
        a \in ClockTimes, b \in ClockTimes}

InitClock ==
    /\ bookings = <<>>
    /\ mentor_services = {}
    /\ nextServiceId = 1
    /\ mentor_availability = {}
    /\ now = 0
    /\ pc = [p \in Procs |-> "idle"]
    /\ req = [p \in Procs |-> NoReq]
    /\ service = [p \in Procs |-> NoService]
    /\ resp = [p \in Procs |-> NoResp]
    /\ availabilityReq \in ClockRequests
    /\ availabilityResp = AvailabilityReply(0, NoError)
    /\ saves = [p \in Procs |-> NoSave]
    /\ tx = NoTx
    /\ InitRest

NextClock == PutAvailability(availabilityReq)

SpecClock == InitClock /\ [][NextClock]_vars

(* The conflict predicate against a stored booking of any duration: the   *)
(* ledger holds one booking of mentor m1, whose start and duration are      *)
(* drawn from a grid, and requests are handled one at a time.               *)
StoredStarts == {15 * k * MinuteMs : k \in 0..12}
StoredDurations == {1, 15, 30, 45, 60, 90, 120}

StoredBooking(start, minutes) ==
    [id |-> 1, mentor_id |-> "m1", user_id |-> "s1", service_id |-> 1,
     session_date |-> start, duration_minutes |-> minutes,
     mentor_price |-> 100, platform_fee |-> 14, taxes_fee |-> 26, total_price |-> 140,
     status |-> "pending", payment_status |-> "pending"]

InitDurations ==
    /\ \E start \in StoredStarts, minutes \in StoredDurations :
          bookings = <<StoredBooking(start, minutes)>>
    /\ mentor_services = {ServiceRow(1, "m1", ItemIntro)}
    /\ nextServiceId = 2
    /\ mentor_availability = {}
    /\ now = 0
    /\ pc = [p \in Procs |-> "idle"]
    /\ req = [p \in Procs |-> NoReq]
    /\ service = [p \in Procs |-> NoService]
    /\ resp = [p \in Procs |-> NoResp]
    /\ availabilityReq = NoAvailabilityReq
    /\ availabilityResp = AvailabilityReply(0, NoError)
    /\ saves = [p \in Procs |-> NoSave]
    /\ tx = NoTx
    /\ InitRest

NextDurations == Handler("p1", WellFormedRequests)

SpecDurations == InitDurations /\ [][NextDurations]_vars

(* Requests of every shape, handled one at a time, while mentor m1 saves   *)
(* and replaces a weekly schedule and the services are replaced.            *)
IndependenceAvailabilityRequests ==
    {[user |-> Token([id |-> "m1", user_type |-> "mentor"]),
      timezone |-> <<"A", "s", "i", "a", "/", "B", "a", "k", "u">>,
      hasSchedule |-> TRUE, schedule |-> sch] :
        sch \in {EmptyWeek, [EmptyWeek EXCEPT !["thursday"] = Array(<<Slot0910>>)]}}

NextIndependence ==
    \/ Handler("p1", Requests)
    \/ ReplaceServices({<<ItemIntro>>})
    \/ \E r \in IndependenceAvailabilityRequests : PutAvailability(r)

SpecIndependence == Init /\ [][NextIndependence]_vars

-----------------------------------------------------------------------------
(* Properties of POST /bookings *)

\* the half-open intervals [s1, e1) and [s2, e2) share an instant
Overlaps(s1, e1, s2, e2) == s1 < e2 /\ s2 < e1

Cancelled(b) == b.status \in {"cancelled_by_student", "cancelled_by_mentor"}

ConflictReply == Reply(400, "This time slot is already booked. Please select a different time.")

\* handler p answers its request, or moves on to its next query, in this step
Steps(p, label) == pc[p] = label /\ pc'[p] # label

\* the rows of mentorId whose interval overlaps the session proposed by r
OverlappingRows(r) ==
    {i \in DOMAIN bookings :
        /\ bookings[i].mentor_id = r.mentorId
        /\ Overlaps(bookings[i].session_date, RowEnd(bookings[i]),
                    r.sessionDate.ms, r.sessionDate.ms + 60 * MinuteMs)}

\* the rows of mentorId that the session proposed by r touches at a boundary
TouchingRows(r) ==
    {i \in DOMAIN bookings :
        /\ bookings[i].mentor_id = r.mentorId
        /\ \/ RowEnd(bookings[i]) = r.sessionDate.ms
           \/ bookings[i].session_date = r.sessionDate.ms + 60 * MinuteMs}

\* C1: two requests for the same mentor and the same interval never both
\* succeed, however their queries interleave.
C1_NeverBothSucceed ==
    \A p, q \in Procs :
        (/\ p # q
         /\ resp[p].status = 201
         /\ resp[q].status = 201
         /\ resp[p].data.mentor_id = resp[q].data.mentor_id)
        => resp[p].data.session_date # resp[q].data.session_date

\* C2: the conflict check rejects a session that strictly overlaps a
\* non-cancelled booking of the mentor, with the conflict answer and no insert;
\* it lets pass a session that touches a booking at a boundary and overlaps no
\* booking of the mentor, and the insert that follows answers 201 with one new
\* row (as long as the service row it names still exists).
C2_OverlapRejectedTouchAccepted ==
    [][\A p \in Procs :
        /\ Steps(p, "overlapCheck") =>
             /\ (\E i \in OverlappingRows(req[p]) : ~Cancelled(bookings[i]))
                  => (resp'[p] = ConflictReply /\ pc'[p] = "idle" /\ bookings' = bookings)
             /\ (TouchingRows(req[p]) # {} /\ OverlappingRows(req[p]) = {})
                  => (pc'[p] = "insert" /\ bookings' = bookings)
        /\ (Steps(p, "insert") /\ \E s \in mentor_services : s.id = req[p].serviceId) =>
             /\ resp'[p].status = 201
             /\ Len(bookings') = Len(bookings) + 1
      ]_vars

\* a session was booked right after (or right before) another of the same mentor
C2_Witness ==
    /\ Len(bookings) = 2
    /\ bookings[1].mentor_id = bookings[2].mentor_id
    /\ \/ bookings[2].session_date = RowEnd(bookings[1])
       \/ bookings[1].session_date = RowEnd(bookings[2])
    /\ resp["p1"].status = 201
    /\ resp["p1"].data = bookings[2]

\* C3: a session that overlaps only cancelled bookings of the mentor passes
\* the conflict check.
C3_CancelledIgnored ==
    [][\A p \in Procs :
        (/\ Steps(p, "overlapCheck")
         /\ \A i \in OverlappingRows(req[p]) : Cancelled(bookings[i]))
        => pc'[p] = "insert"
      ]_vars

\* C4: when the handler reaches its session-date check, an unparseable
\* sessionDate is answered with the invalid-date error and a sessionDate not
\* strictly later than the clock with the past-session error, both HTTP 400 and
\* without an insert; no request with an unparseable sessionDate is answered 201.
C4_PastOrInvalidDateRejected ==
    [][\A p \in Procs :
        /\ Steps(p, "validateDate") =>
             /\ req[p].sessionDate.kind = "garbage"
                  => (/\ resp'[p] = Reply(400, "Invalid session date format")
                      /\ pc'[p] = "idle"
                      /\ bookings' = bookings)
             /\ (req[p].sessionDate.kind = "iso" /\ req[p].sessionDate.ms <= now)
                  => (/\ resp'[p] = Reply(400, "Session date must be in the future")
                      /\ pc'[p] = "idle"
                      /\ bookings' = bookings)
             /\ (req[p].sessionDate.kind = "iso" /\ req[p].sessionDate.ms > now)
                  => pc'[p] = "overlapCheck"
        /\ resp'[p].status = 201 => req'[p].sessionDate.kind = "iso"
      ]_vars

\* a session that starts exactly now was refused
C4_Witness ==
    /\ pc["p1"] = "idle"
    /\ resp["p1"] = Reply(400, "Session date must be in the future")
    /\ req["p1"].sessionDate = DateIso(now)
    /\ now > 0

\* C5: a request is answered 201 only by its insert; the insert adds exactly
\* one row and leaves the others alone; the row is pending/pending, lasts 60
\* minutes, names the mentor and service of the request and the authenticated
\* caller, and carries the four prices of the service row that the request's
\* service query read; the response returns that row.
C5_InsertedRowSnapshot ==
    [][\A p \in Procs :
        /\ (Steps(p, "serviceQuery") /\ pc'[p] = "validateDate") =>
             /\ service'[p] \in mentor_services
             /\ service'[p].id = req[p].serviceId
             /\ service'[p].mentor_id = req[p].mentorId
        /\ (pc[p] # "idle" /\ resp'[p].status = 201) =>
             /\ pc[p] = "insert"
             /\ Len(bookings') = Len(bookings) + 1
             /\ \A i \in DOMAIN bookings : bookings'[i] = bookings[i]
             /\ LET row == bookings'[Len(bookings')] IN
                  /\ row.status = "pending"
                  /\ row.payment_status = "pending"
                  /\ row.duration_minutes = 60
                  /\ row.mentor_id = req[p].mentorId
                  /\ row.user_id = req[p].user.id
                  /\ row.service_id = req[p].serviceId
                  /\ row.session_date = req[p].sessionDate.ms
                  /\ row.mentor_price = service[p].mentor_session_price
                  /\ row.platform_fee = service[p].platform_fee
                  /\ row.taxes_fee = service[p].taxes_fee
                  /\ row.total_price = service[p].total_price
                  /\ resp'[p].data = row
      ]_vars

\* a booking of the 200 + 28 + 52 = 280 service was created and returned
C5_Witness ==
    /\ resp["p1"].status = 201
    /\ Len(bookings) >= 1
    /\ resp["p1"].data = bookings[Len(bookings)]
    /\ resp["p1"].data.mentor_price = 200
    /\ resp["p1"].data.platform_fee = 28
    /\ resp["p1"].data.total_price = 280

\* C6: no step, a service replacement included, removes an existing booking or
\* changes its mentorPrice, platformFee, taxesFee or totalPrice.
C6_PricingSnapshotKept ==
    [][\A i \in DOMAIN bookings :
        /\ i \in DOMAIN bookings'
        /\ bookings'[i].id = bookings[i].id
        /\ bookings'[i].mentor_price = bookings[i].mentor_price
        /\ bookings'[i].platform_fee = bookings[i].platform_fee
        /\ bookings'[i].taxes_fee = bookings[i].taxes_fee
        /\ bookings'[i].total_price = bookings[i].total_price
      ]_vars

\* the service a booking was made for has been replaced by one with another price
C6_Witness ==
    \E i \in DOMAIN bookings :
        /\ bookings[i].service_id = NoId
        /\ \E s \in mentor_services :
              /\ s.mentor_id = bookings[i].mentor_id
              /\ s.mentor_session_price # bookings[i].mentor_price

\* the request comes from a student and has every required field
PassesMiddleware(r) ==
    r.user.present /\ r.user.userType = "user" /\ ~MissingRequiredFields(r)

\* C7: a request (of an authenticated student, with the required fields) whose
\* mentorId names no user of type mentor is answered 404 "Mentor not found";
\* one whose serviceId names no service row of that mentor when the service
\* query runs is answered 404 "Service not found"; neither inserts a booking.
C7_UnknownMentorOrServiceNotFound ==
    [][\A p \in Procs :
        /\ (Steps(p, "mentorCheck")
            /\ ~\E u \in users : u.id = req[p].mentorId /\ u.user_type = "mentor") =>
             /\ resp'[p] = Reply(404, "Mentor not found")
             /\ pc'[p] = "idle"
             /\ bookings' = bookings
        /\ (Steps(p, "serviceQuery")
            /\ ~\E s \in mentor_services :
                   s.id = req[p].serviceId /\ s.mentor_id = req[p].mentorId) =>
             /\ resp'[p] = Reply(404, "Service not found")
             /\ pc'[p] = "idle"
             /\ bookings' = bookings
        /\ (/\ pc'[p] = "idle"
            /\ resp'[p] # NoResp
            /\ PassesMiddleware(req'[p])
            /\ ~\E u \in users : u.id = req'[p].mentorId /\ u.user_type = "mentor")
           => resp'[p] = Reply(404, "Mentor not found")
      ]_vars

\* a request for a service that exists but belongs to another mentor was refused
C7_Witness ==
    /\ pc["p1"] = "idle"
    /\ resp["p1"] = Reply(404, "Service not found")
    /\ \E s \in mentor_services :
          s.id = req["p1"].serviceId /\ s.mentor_id # req["p1"].mentorId
    /\ ~\E s \in mentor_services :
          s.id # req["p1"].serviceId /\ s.mentor_id # req["p1"].mentorId

\* C8: only rows of the requested mentor can make the conflict check fail: a
\* session that overlaps no booking of its own mentor passes the check whatever
\* rows other mentors have, and its insert answers 201 with one new row (as
\* long as the service row it names still exists).
C8_OtherMentorsNeverConflict ==
    [][\A p \in Procs :
        /\ (Steps(p, "overlapCheck") /\ OverlappingRows(req[p]) = {})
             => (pc'[p] = "insert" /\ resp'[p] = NoResp)
        /\ (Steps(p, "insert") /\ \E s \in mentor_services : s.id = req[p].serviceId) =>
             /\ resp'[p].status = 201
             /\ bookings' = Append(bookings, resp'[p].data)
             /\ resp'[p].data.mentor_id = req[p].mentorId
      ]_vars

\* both handlers were answered 201 for the same instant with different mentors
C8_Witness ==
    /\ Len(bookings) = 2
    /\ bookings[1].mentor_id # bookings[2].mentor_id
    /\ bookings[1].session_date = bookings[2].session_date
    /\ resp["p1"].status = 201
    /\ resp["p2"].status = 201
    /\ {resp["p1"].data, resp["p2"].data} = {bookings[1], bookings[2]}

\* the status changes the state machine allows
AllowedStatusChanges ==
    {<<"pending", "confirmed">>, <<"confirmed", "completed">>,
     <<"pending", "cancelled_by_student">>, <<"pending", "cancelled_by_mentor">>,
     <<"confirmed", "cancelled_by_student">>, <<"confirmed", "cancelled_by_mentor">>,
     <<"confirmed", "no_show">>}

TerminalStatus == {"completed", "cancelled_by_student", "cancelled_by_mentor", "no_show"}

\* C9: in every step each existing booking keeps its status or changes it along
\* an allowed transition; a booking in a terminal status keeps it; and the
\* steps of the request handlers and of a service replacement change no status.
C9_StatusStateMachine ==
    [][\A i \in DOMAIN bookings :
        /\ i \in DOMAIN bookings'
        /\ \/ bookings'[i].status = bookings[i].status
           \/ <<bookings[i].status, bookings'[i].status>> \in AllowedStatusChanges
        /\ bookings[i].status \in TerminalStatus
             => bookings'[i].status = bookings[i].status
        /\ (pc' # pc \/ mentor_services' # mentor_services)
             => bookings'[i].status = bookings[i].status
      ]_vars

\* a booking reached a terminal status and its service was replaced afterwards
\* or before, while another booking is still pending
C9_Witness ==
    /\ \E i \in DOMAIN bookings :
          bookings[i].status \in {"completed", "no_show"} /\ bookings[i].service_id = NoId
    /\ \E i \in DOMAIN bookings : bookings[i].status = "pending"

-----------------------------------------------------------------------------
(* The availability store *)

\* a time of day in minutes, read from the digits of HH:MM
MinuteOfDay(t) ==
    (10 * (CodeUnit(t[1]) - 48) + (CodeUnit(t[2]) - 48)) * 60
        + 10 * (CodeUnit(t[4]) - 48) + (CodeUnit(t[5]) - 48)

\* t is HH:MM with HH in 00..23 and MM in 00..59
IsTimeOfDay(t) ==
    /\ Len(t) = 5
    /\ t[3] = ":"
    /\ \A i \in {1, 2, 4, 5} : t[i] \in Digits
    /\ 10 * (CodeUnit(t[1]) - 48) + (CodeUnit(t[2]) - 48) <= 23
    /\ 10 * (CodeUnit(t[4]) - 48) + (CodeUnit(t[5]) - 48) <= 59

\* every day is an array of well-formed, non-empty ranges, no two of which
\* share a minute
WellFormedWeek(schedule) ==
    \A d \in DOMAIN schedule :
        /\ schedule[d].isArray
        /\ \A i \in DOMAIN schedule[d].slots :
              LET slot == schedule[d].slots[i]
              IN /\ IsTimeOfDay(slot.start)
                 /\ IsTimeOfDay(slot.end)
                 /\ MinuteOfDay(slot.start) < MinuteOfDay(slot.end)
        /\ \A i, j \in DOMAIN schedule[d].slots :
              i < j =>
                 LET a == schedule[d].slots[i]
                     b == schedule[d].slots[j]
                 IN \/ MinuteOfDay(a.end) <= MinuteOfDay(b.start)
                    \/ MinuteOfDay(b.end) <= MinuteOfDay(a.start)

PassesValidation(r) ==
    /\ r.timezone # <<>>
    /\ r.hasSchedule
    /\ timezoneRegex(r.timezone)
    /\ WellFormedWeek(r.schedule)

\* the rows of mentor m in a state of the table
RowsOf(table, m) == {row \in table : row.mentor_id = m}

\* C10: a save changes the availability store only with a 200 answer to a
\* mentor whose timezone and whole schedule pass validation, and then only
\* that mentor's row, which becomes the submitted document; a mentor's save
\* that fails any validation is answered 400 and leaves every stored row, or
\* its absence, as it was.
C10_WriteOnlyWhenValid ==
    [][LET r == availabilityReq'
       IN /\ (mentor_availability' # mentor_availability) =>
                /\ availabilityResp'.status = 200
                /\ requireMentor(r.user)
                /\ PassesValidation(r)
                /\ RowsOf(mentor_availability', r.user.id)
                      = {AvailabilityRow(r.user.id, r.timezone, r.schedule)}
                /\ \A m \in {u.id : u \in users} :
                      m # r.user.id =>
                         RowsOf(mentor_availability', m) = RowsOf(mentor_availability, m)
          /\ (availabilityReq' # NoAvailabilityReq /\ requireMentor(r.user) /\ ~PassesValidation(r)) =>
                /\ availabilityResp'.status = 400
                /\ mentor_availability' = mentor_availability
      ]_vars

\* a mentor with a stored row has just been refused a schedule with
\* overlapping slots, and the row is not the refused document
C10_Witness ==
    /\ requireMentor(availabilityReq.user)
    /\ availabilityResp.status = 400
    /\ availabilityResp.message = "Overlapping time slots detected"
    /\ RowsOf(mentor_availability, availabilityReq.user.id) # {}
    /\ \A row \in RowsOf(mentor_availability, availabilityReq.user.id) :
          row.schedule # availabilityReq.schedule

-----------------------------------------------------------------------------
(* The schedule validator *)

Incomplete(slot) == slot.start = <<>> \/ slot.end = <<>>
BadFormat(slot) == ~IsTimeOfDay(slot.start) \/ ~IsTimeOfDay(slot.end)
Inverted(slot) == MinuteOfDay(slot.start) >= MinuteOfDay(slot.end)

\* the slot breaks one of the three rules on single slots
SlotViolates(slot) == Incomplete(slot) \/ BadFormat(slot) \/ Inverted(slot)

\* A.start < B.end and B.start < A.end, on minutes of the day
PairOverlaps(a, b) ==
    /\ MinuteOfDay(a.start) < MinuteOfDay(b.end)
    /\ MinuteOfDay(b.start) < MinuteOfDay(a.end)

SomePairOverlaps(slots) ==
    \E i, j \in DOMAIN slots : i < j /\ PairOverlaps(slots[i], slots[j])

DayViolates(value) ==
    \/ ~value.isArray
    \/ \E i \in DOMAIN value.slots : SlotViolates(value.slots[i])
    \/ SomePairOverlaps(value.slots)

MsgMissingDay == "Schedule must include the day as an array"
MsgIncomplete == "Each time slot must have start and end times"
MsgBadFormat == "Invalid time format. Expected HH:MM (24-hour format)"
MsgInverted == "Start time must be before end time"
MsgOverlap == "Overlapping time slots detected"

\* the earliest violated rule of a violating day, rules taken in the order
\* missing-day, incomplete, bad format, inverted, overlapping over the whole day
EarliestRule(value) ==
    IF ~value.isArray THEN MsgMissingDay
    ELSE IF \E i \in DOMAIN value.slots : Incomplete(value.slots[i]) THEN MsgIncomplete
    ELSE IF \E i \in DOMAIN value.slots : BadFormat(value.slots[i]) THEN MsgBadFormat
    ELSE IF \E i \in DOMAIN value.slots : Inverted(value.slots[i]) THEN MsgInverted
    ELSE MsgOverlap

\* the earliest violated rule of the first violating slot in submitted order;
\* overlapping when no single slot violates a rule
FirstSlotRule(value) ==
    IF ~value.isArray THEN MsgMissingDay
    ELSE IF \E i \in DOMAIN value.slots : SlotViolates(value.slots[i])
      THEN LET k == CHOOSE i \in DOMAIN value.slots :
                        /\ SlotViolates(value.slots[i])
                        /\ \A j \in 1..(i - 1) : ~SlotViolates(value.slots[j])
               slot == value.slots[k]
           IN IF Incomplete(slot) THEN MsgIncomplete
              ELSE IF BadFormat(slot) THEN MsgBadFormat
              ELSE MsgInverted
    ELSE MsgOverlap

\* the position in monday..sunday of the earliest day with a violation
FirstViolatingDay(schedule) ==
    CHOOSE d \in DOMAIN validDays :
        /\ DayViolates(schedule[validDays[d]])
        /\ \A e \in 1..(d - 1) : ~DayViolates(schedule[validDays[e]])

SomeDayViolates(schedule) ==
    \E d \in DOMAIN validDays : DayViolates(schedule[validDays[d]])

\* the handler has answered a schedule that has a violation
AnsweredViolation ==
    /\ availabilityResp.status # 0
    /\ requireMentor(availabilityReq.user)
    /\ availabilityReq.hasSchedule
    /\ timezoneRegex(availabilityReq.timezone)
    /\ SomeDayViolates(availabilityReq.schedule)

\* C11 as stated: the one reported violation is that of the earliest violating
\* day in monday..sunday order, and within that day the earliest violated rule
\* in the order missing-day, incomplete slot, bad time format, inverted range,
\* overlapping slots.
C11_EarliestRuleOfEarliestDay ==
    AnsweredViolation =>
        LET day == validDays[FirstViolatingDay(availabilityReq.schedule)]
        IN /\ availabilityResp.status = 400
           /\ availabilityResp.day = day
           /\ availabilityResp.message = EarliestRule(availabilityReq.schedule[day])

\* C11 amended: the one reported violation is that of the earliest violating
\* day in monday..sunday order; within that day it is missing-day, else the
\* earliest violated rule (incomplete, bad format, inverted) of the first slot
\* in submitted order that violates one, else overlapping slots.
C11_FirstSlotOfEarliestDay ==
    AnsweredViolation =>
        LET day == validDays[FirstViolatingDay(availabilityReq.schedule)]
        IN /\ availabilityResp.status = 400
           /\ availabilityResp.day = day
           /\ availabilityResp.message = FirstSlotRule(availabilityReq.schedule[day])

\* monday holds a well-formed slot, then a bad-format slot, then an incomplete
\* slot, friday is not an array, and monday's bad format is what was reported
C11_Witness ==
    /\ AnsweredViolation
    /\ availabilityReq.schedule["monday"].slots = <<Slot0910, SlotBadFormat, SlotIncomplete>>
    /\ ~availabilityReq.schedule["friday"].isArray
    /\ availabilityResp.day = "monday"
    /\ availabilityResp.message = MsgBadFormat

\* the handler has answered, and day d is an array whose slots are all
\* well-formed with start < end, reached with no violation on an earlier day
AnsweredWellFormedDay(d) ==
    /\ availabilityResp.status # 0
    /\ availabilityReq.schedule[validDays[d]].isArray
    /\ \A i \in DOMAIN availabilityReq.schedule[validDays[d]].slots :
          ~SlotViolates(availabilityReq.schedule[validDays[d]].slots[i])
    /\ \A e \in 1..(d - 1) : ~DayViolates(availabilityReq.schedule[validDays[e]])

OverlapReported(d) ==
    /\ availabilityResp.status = 400
    /\ availabilityResp.day = validDays[d]
    /\ availabilityResp.message = MsgOverlap

\* C12: for a day whose slots all have a well-formed start < end, overlapping
\* slots are reported if and only if some two slots of the day overlap
\* pairwise, in whatever order they were submitted; merely adjacent slots are
\* accepted and two slots with the same start are rejected.
C12_OverlapIffPairwise ==
    \A d \in DOMAIN validDays :
        AnsweredWellFormedDay(d) =>
            LET slots == availabilityReq.schedule[validDays[d]].slots
            IN /\ OverlapReported(d) <=> SomePairOverlaps(slots)
               /\ (\E i, j \in DOMAIN slots : i # j /\ slots[i].start = slots[j].start)
                     => OverlapReported(d)
               /\ (/\ Len(slots) = 2
                   /\ slots[1].end = slots[2].start \/ slots[2].end = slots[1].start)
                     => ~OverlapReported(d)

\* 10:00-11:00 submitted before the adjacent 09:00-10:00, and the schedule saved
C12_Witness ==
    /\ AnsweredWellFormedDay(1)
    /\ availabilityReq.schedule["monday"].slots = <<Slot1011, Slot0910>>
    /\ availabilityResp.status = 200
    /\ \E row \in RowsOf(mentor_availability, availabilityReq.user.id) :
          row.schedule = availabilityReq.schedule

\* C13: in every reachable state every stored availability row has a schedule
\* with all seven weekday keys, each a list of ranges with start < end, no two
\* ranges of one day overlapping pairwise.
C13_StoredScheduleWellFormed ==
    \A row \in mentor_availability :
        /\ DOMAIN row.schedule = {validDays[i] : i \in DOMAIN validDays}
        /\ WellFormedWeek(row.schedule)

\* both mentors hold a row, one of them with two slots on monday that were
\* submitted out of order
C13_Witness ==
    /\ \A m \in {"m1", "m2"} : RowsOf(mentor_availability, m) # {}
    /\ \E row \in mentor_availability :
          row.schedule["monday"].slots = <<Slot1011, Slot0910>>

-----------------------------------------------------------------------------
(* The availability store under successive and concurrent saves *)

\* handler p runs its upsert statement in this step
Upserts(p) == saves[p].state = "upsertQuery" /\ saves'[p].state = "idle"

\* the row a save of request r leaves
SavedRow(r) == AvailabilityRow(r.user.id, r.timezone, r.schedule)

\* handler p has been answered 200 and holds no further request
Saved(p) == saves[p].state = "idle" /\ saves[p].resp.status = 200

\* C14: after any sequence of saves there is at most one row per mentor, and
\* a save that follows a save of a different schedule for the same mentor
\* leaves that single row holding the timezone and schedule of the later save.
C14_OneRowHoldingLastSave ==
    [][/\ \A m \in {u.id : u \in users} : Cardinality(RowsOf(mentor_availability', m)) <= 1
       /\ \A p \in Procs :
             (/\ Upserts(p)
              /\ \E row \in RowsOf(mentor_availability, saves[p].req.user.id) :
                    row.schedule # saves[p].req.schedule)
             => /\ RowsOf(mentor_availability', saves[p].req.user.id) = {SavedRow(saves[p].req)}
                /\ saves'[p].resp.status = 200
                /\ saves'[p].resp.data = SavedRow(saves[p].req)
      ]_vars

\* both handlers have saved for the same mentor, with different timezones and
\* schedules, and the one row is the document handler p2 submitted
C14_Witness ==
    /\ \A p \in Procs : Saved(p)
    /\ saves["p1"].req.user = saves["p2"].req.user
    /\ saves["p1"].req.schedule # saves["p2"].req.schedule
    /\ saves["p1"].req.timezone # saves["p2"].req.timezone
    /\ mentor_availability = {SavedRow(saves["p2"].req)}

\* handlers p and q are suspended at their upsert for the same mentor
Racing(p, q) ==
    /\ p # q
    /\ saves[p].state = "upsertQuery"
    /\ saves[q].state = "upsertQuery"
    /\ saves[p].req.user.id = saves[q].req.user.id

\* C15: when two valid saves for the same mentor run concurrently, both
\* succeed, each commit leaves exactly one row holding the complete timezone
\* and schedule of the save that committed, and once both are answered the row
\* is the whole document of one of them, never a merge of the two.
C15_ConcurrentSavesLastCommitWins ==
    [][/\ \A p, q \in Procs :
             (Racing(p, q) /\ Upserts(p))
             => /\ saves'[p].resp.status = 200
                /\ RowsOf(mentor_availability', saves[p].req.user.id) = {SavedRow(saves[p].req)}
                /\ saves'[q] = saves[q]
       /\ \A p, q \in Procs :
             (/\ p # q
              /\ Upserts(p)
              /\ Saved(q)
              /\ saves[q].req.user.id = saves[p].req.user.id)
             => /\ saves'[p].resp.status = 200
                /\ RowsOf(mentor_availability', saves[p].req.user.id) = {SavedRow(saves[p].req)}
                /\ Saved(q)'
      ]_vars

\* handler p1 has committed and been answered 200 while p2, with another
\* timezone and schedule for the same mentor, is still suspended at its upsert
C15_Witness ==
    /\ Saved("p1")
    /\ saves["p2"].state = "upsertQuery"
    /\ saves["p1"].req.user = saves["p2"].req.user
    /\ saves["p1"].req.schedule # saves["p2"].req.schedule
    /\ saves["p1"].req.timezone # saves["p2"].req.timezone
    /\ saves["p1"].req.schedule["sunday"].slots # <<>>
    /\ saves["p2"].req.schedule["monday"].slots # <<>>
    /\ mentor_availability = {SavedRow(saves["p1"].req)}

-----------------------------------------------------------------------------
(* Validating the sorted schedule again *)

\* the schedule with each day's slots sorted by start, as the handler sorts them
SortedWeek(schedule) ==
    [d \in DOMAIN schedule |->
        [isArray |-> schedule[d].isArray, slots |-> sortedSlots(schedule[d].slots)]]

\* the slots of a day are in ascending order of start, on minutes of the day
Ascending(slots) ==
    \A i \in 1..(Len(slots) - 1) :
        MinuteOfDay(slots[i].start) <= MinuteOfDay(slots[i + 1].start)

\* C16: for every schedule the handler accepts, the schedule with each day's
\* slots sorted by start is accepted too, is in ascending order, and sorting it
\* again leaves it as it is.
C16_SortedScheduleAcceptedAgain ==
    (availabilityResp.status = 200) =>
        LET sorted == SortedWeek(availabilityReq.schedule)
        IN /\ ScheduleError(sorted) = NoError
           /\ AvailabilityResponse([availabilityReq EXCEPT !.schedule = sorted]).status = 200
           /\ SortedWeek(sorted) = sorted
           /\ \A d \in DOMAIN sorted : Ascending(sorted[d].slots)

\* an accepted schedule whose monday holds three slots out of order
C16_Witness ==
    /\ availabilityResp.status = 200
    /\ availabilityReq.schedule["monday"].slots = <<Slot1112, Slot0909, Slot1011>>
    /\ SortedWeek(availabilityReq.schedule)["monday"].slots = <<Slot0909, Slot1011, Slot1112>>

-----------------------------------------------------------------------------
(* Replacing the services of a mentor *)

WholeNumber(v) == v.type = "number" /\ v.whole

\* the item has a name and whole-number prices with mentorPrice > 0,
\* platformFee >= 0, taxesFee >= 0 and totalPrice = their sum
SatisfiesRules(sv) ==
    /\ sv.mentorshipService # ""
    /\ \A f \in {"mentorSessionPrice", "platformFee", "taxesFee", "totalPrice"} :
          WholeNumber(sv[f])
    /\ sv.mentorSessionPrice.n > 0
    /\ sv.platformFee.n >= 0
    /\ sv.taxesFee.n >= 0
    /\ sv.totalPrice.n = sv.mentorSessionPrice.n + sv.platformFee.n + sv.taxesFee.n

\* the request is a mentor's, with an array for its batch
MentorBatch(r) == requireMentor(r.user) /\ r.services.kind = "array"

AllSatisfyRules(r) == \A i \in DOMAIN r.services.items : SatisfiesRules(r.services.items[i])

DistinctNames(r) ==
    \A i, j \in DOMAIN r.services.items :
        r.services.items[i].mentorshipService = r.services.items[j].mentorshipService => i = j

FitsColumns(r) ==
    \A i \in DOMAIN r.services.items :
        /\ r.services.items[i].mentorshipService # LongName
        /\ r.services.items[i].totalPrice.n <= MaxInteger

\* the rows of mentor m in a state of mentor_services, without their ids
ServicesOf(table, m) ==
    {[name |-> row.mentorship_service, price |-> row.mentor_session_price,
      fee |-> row.platform_fee, tax |-> row.taxes_fee, total |-> row.total_price] :
        row \in {x \in table : x.mentor_id = m}}

\* the rows a batch asks for, without ids
BatchRows(r) ==
    {[name |-> r.services.items[i].mentorshipService,
      price |-> r.services.items[i].mentorSessionPrice.n,
      fee |-> r.services.items[i].platformFee.n,
      tax |-> r.services.items[i].taxesFee.n,
      total |-> r.services.items[i].totalPrice.n] : i \in DOMAIN r.services.items}

\* the handler takes a request in this step / answers one it had suspended on
Receives == tx.state = "idle" /\ tx' # tx
Answers == tx.state # "idle" /\ tx'.state = "idle"

\* a mentor's batch with an item that breaks a rule is answered 400 at once,
\* with no statement run: the table and the transaction's work are untouched
InvalidBatchRejectedBeforeAnyWrite ==
    (Receives /\ MentorBatch(tx'.req) /\ ~AllSatisfyRules(tx'.req))
    => /\ tx'.state = "idle"
       /\ tx'.resp.status = 400
       /\ ~tx'.deleted
       /\ tx'.inserted = <<>>
       /\ mentor_services' = mentor_services
       /\ nextServiceId' = nextServiceId

\* C17 as stated: an invalid batch fails with 400 before any row is deleted or
\* inserted, and a batch whose items all satisfy the rules succeeds (the store
\* being available).
C17_InvalidRejectedValidSucceeds ==
    [][/\ InvalidBatchRejectedBeforeAnyWrite
       /\ (Receives /\ MentorBatch(tx'.req) /\ AllSatisfyRules(tx'.req))
          => tx'.state # "idle"
       /\ (Answers /\ AllSatisfyRules(tx.req))
          => \/ tx'.resp.status = 200
             \/ tx'.error = "08006"
      ]_vars

\* C17 amended: an invalid batch fails with 400 before any row is deleted or
\* inserted; a batch whose items all satisfy the rules passes validation, and
\* succeeds, leaving exactly its rows for the mentor, when its service names
\* are distinct and its values fit the columns (the store being available).
C17_InvalidRejectedValidDistinctSucceeds ==
    [][/\ InvalidBatchRejectedBeforeAnyWrite
       /\ (Receives /\ MentorBatch(tx'.req) /\ AllSatisfyRules(tx'.req))
          => tx'.state # "idle"
       /\ (Answers /\ AllSatisfyRules(tx.req) /\ DistinctNames(tx.req) /\ FitsColumns(tx.req))
          => \/ /\ tx'.resp.status = 200
                /\ ServicesOf(mentor_services', tx.req.user.id) = BatchRows(tx.req)
             \/ tx'.error = "08006"
      ]_vars

\* the mentor holds the two rows of an earlier batch and has just been refused
\* a batch whose second item has totalPrice 139 for 100 + 14 + 26
C17_Witness ==
    /\ tx.state = "idle"
    /\ tx.req.services.items = <<ItemReview, ItemMismatch>>
    /\ tx.resp.status = 400
    /\ ServicesOf(mentor_services, tx.req.user.id)
          = BatchRows([tx.req EXCEPT !.services = ServicesArray(<<ItemIntro2, ItemReview>>)])

\* C18: a services replace is all-or-nothing.  No step before the answer
\* changes the table other connections read; a successful answer leaves the
\* mentor's rows exactly the submitted batch and the other mentors' rows as
\* they were; a failed one, also after the delete or after some inserts,
\* leaves every row as it was.
C18_ReplaceAllOrNothing ==
    [][/\ ~Answers => mentor_services' = mentor_services
       /\ (Answers /\ tx'.resp.status = 200)
          => /\ ServicesOf(mentor_services', tx.req.user.id) = BatchRows(tx.req)
             /\ \A m \in {u.id : u \in users} :
                   m # tx.req.user.id =>
                      ServicesOf(mentor_services', m) = ServicesOf(mentor_services, m)
       /\ (Answers /\ tx'.resp.status # 200)
          => /\ tx'.resp.status = 500
             /\ mentor_services' = mentor_services
             /\ bookings' = bookings
       /\ tx'.state = "idle" => (~tx'.deleted /\ tx'.inserted = <<>>)
      ]_vars

\* a batch with the same service name twice failed at its second INSERT, after
\* the DELETE and the first INSERT, and the mentor's two earlier rows are there
C18_Witness ==
    /\ tx.state = "idle"
    /\ tx.req.services.items = <<ItemIntro, ItemIntro2>>
    /\ tx.resp.status = 500
    /\ tx.error = "23505"
    /\ ServicesOf(mentor_services, tx.req.user.id)
          = BatchRows([tx.req EXCEPT !.services = ServicesArray(<<ItemIntro2, ItemReview>>)])

-----------------------------------------------------------------------------
(* The prices of the rows at rest *)

Priced(price, fee, tax, total) ==
    /\ total = price + fee + tax
    /\ price > 0
    /\ fee >= 0
    /\ tax >= 0

\* C19: in every reachable state every mentor_services row and every bookings
\* row has total_price = price + platform_fee + taxes_fee with the price
\* positive and both fees non-negative, and no mentor has two service rows
\* with the same mentorship_service.
C19_RowsPricedAndNamesUnique ==
    /\ \A s \in mentor_services :
          Priced(s.mentor_session_price, s.platform_fee, s.taxes_fee, s.total_price)
    /\ \A i \in DOMAIN bookings :
          Priced(bookings[i].mentor_price, bookings[i].platform_fee,
                 bookings[i].taxes_fee, bookings[i].total_price)
    /\ \A s, t \in mentor_services :
          (s.mentor_id = t.mentor_id /\ s.mentorship_service = t.mentorship_service)
             => s = t

\* a booking taken at one price is at rest beside the row of a later
\* replacement of the same service at another price
C19_Witness ==
    /\ \E i \in DOMAIN bookings, s \in mentor_services :
          /\ bookings[i].mentor_id = s.mentor_id
          /\ bookings[i].service_id = NoId
          /\ bookings[i].total_price # s.total_price
          /\ s.mentorship_service = "intro"

-----------------------------------------------------------------------------
(* Unique violations raised while a services batch is written *)

\* the statement that failed raised unique_violation
UniqueViolation(t) == t.error = "23505"

\* C20: whenever the store raises a unique-constraint violation during a
\* write, here the second INSERT of a services batch that holds the same
\* service name twice, the caller is answered with a conflict (HTTP 400 or
\* 409), never with the HTTP 500 persistence error.
C20_UniqueViolationAnsweredAsConflict ==
    [][(Answers /\ UniqueViolation(tx')) => tx'.resp.status \in {400, 409}]_vars

-----------------------------------------------------------------------------
(* The read handlers of the booking ledger *)

\* the bookings of mentor m that are not cancelled and start on the n-th day
LiveBookingsOn(m, n) ==
    {i \in DOMAIN bookings :
        /\ bookings[i].mentor_id = m
        /\ ~Cancelled(bookings[i])
        /\ bookings[i].session_date \div DayMs = n}

\* C21: GET /bookings/booked-times/{mentorId}?date=D returns every booking
\* interval of that mentor that is not cancelled (neither cancelled_by_student
\* nor cancelled_by_mentor) and lies on UTC day D, and no cancelled booking and
\* no booking of another mentor or another day.
C21_BookedTimesAreLiveBookingsOfDay ==
    [][(lookup' # lookup /\ lookup'.route = "booked-times" /\ lookup'.status = 200)
          => /\ {lookup'.rows[i] : i \in DOMAIN lookup'.rows}
                   = LiveBookingsOn(lookup'.mentorId, lookup'.date.day)
             /\ Len(lookup'.rows)
                   = Cardinality(LiveBookingsOn(lookup'.mentorId, lookup'.date.day))
      ]_vars

\* C30: GET /bookings/check/{mentorId} returns hasBooking = true if and only
\* if the authenticated caller has at least one booking with that mentor that
\* is not cancelled; a caller whose only bookings with the mentor are cancelled
\* gets false.
C30_HasBookingIffLiveBooking ==
    [][(lookup' # lookup /\ lookup'.route = "check" /\ lookup'.status = 200)
          => (lookup'.hasBooking
                <=> \E i \in DOMAIN bookings :
                       /\ bookings[i].user_id = lookup'.user.id
                       /\ bookings[i].mentor_id = lookup'.mentorId
                       /\ ~Cancelled(bookings[i]))
      ]_vars

-----------------------------------------------------------------------------
(* Ownership of the availability and service rows *)

\* the token of the mentor whose id is m
IsMentor(tok, m) == tok.present /\ tok.id = m /\ tok.userType = "mentor"

\* C22: availability and service rows are changed only by their owning
\* mentor: a PUT of availability or services made with mentor m's identity
\* leaves every row of another mentor unchanged, and no request by a caller
\* who is not a mentor changes any such row.
C22_RowsChangedOnlyByOwner ==
    [][\A m \in {u.id : u \in users} \cup {""} :
          /\ RowsOf(mentor_availability', m) # RowsOf(mentor_availability, m)
                => IsMentor(availabilityReq'.user, m)
          /\ RowsOf(mentor_services', m) # RowsOf(mentor_services, m)
                => IsMentor(tx.req.user, m)
      ]_vars

\* mentor m1's services replace has just been committed while mentor m2 holds
\* a schedule and a service, and the student's save was turned away
C22_Witness ==
    /\ tx.state = "idle" /\ tx.resp.status = 200 /\ tx.req.user.id = "m1"
    /\ RowsOf(mentor_services, "m1") # {}
    /\ RowsOf(mentor_services, "m2") # {}
    /\ RowsOf(mentor_availability, "m2") # {}
    /\ RowsOf(mentor_availability, "m1") # {}
    /\ availabilityReq.user.id = "s1" /\ availabilityResp.status = 403

-----------------------------------------------------------------------------
(* Registration *)

\* the registration service answers the request it was working on
RegistrationAnswers == registration.state # "idle" /\ registration'.state = "idle"

\* the rows of the three tables that belong to the registration's user
RowsWritten(u, email) ==
    [users |-> {x \in users_table' : x.id = u \/ x.email = toLowerCase(email)},
     mentor_details |-> {x \in mentor_details' : x.user_id = u},
     marketing_consent_history |-> {x \in marketing_consent_history' : x.user_id = u}]

\* C23: registration is atomic: when a student or mentor registration fails
\* after its first insert, none of the rows it wrote (users, mentor_details,
\* marketing_consent_history) remains; when it succeeds, all of them exist.
C23_RegistrationAtomic ==
    [][RegistrationAnswers =>
          LET r == registration.req
              rows == RowsWritten(registration'.newUser, r.email)
          IN IF registration'.status = 201
               THEN /\ rows.users # {}
                    /\ rows.marketing_consent_history # {}
                    /\ r.kind = "mentor" => rows.mentor_details # {}
               ELSE /\ rows.users = {}
                    /\ rows.mentor_details = {}
                    /\ rows.marketing_consent_history = {}
      ]_vars

-----------------------------------------------------------------------------
(* String order and clock order of the accepted times *)

\* the minute of the day a time string names, with one or two hour digits
ClockMinutes(t) ==
    IF Len(t) = 5 THEN MinuteOfDay(t)
    ELSE (CodeUnit(t[1]) - 48) * 60 + 10 * (CodeUnit(t[3]) - 48) + (CodeUnit(t[4]) - 48)

\* every string of two digits, a colon and two digits
FiveCharTimes == {Time(h1, h2, m1, m2) : h1 \in Digits, h2 \in Digits,
                                         m1 \in Digits, m2 \in Digits}

\* C24: for every two time strings the schedule validator accepts, string
\* comparison agrees with clock order (a < b as strings iff a is an earlier
\* time of day than b), so the start < end check and the overlap check are
\* right on all accepted inputs, which lie in 00:00-23:59.
C24_StringOrderIsClockOrder ==
    LET a == availabilityReq.schedule["monday"].slots[1].start
        b == availabilityReq.schedule["monday"].slots[1].end
    IN (timeRegex(a) /\ timeRegex(b)) =>
          /\ ClockMinutes(a) \in 0..(24 * 60 - 1)
          /\ ClockMinutes(b) \in 0..(24 * 60 - 1)
          /\ StrLess(a, b) <=> ClockMinutes(a) < ClockMinutes(b)
          /\ LocaleLess(a, b) <=> ClockMinutes(a) < ClockMinutes(b)
          /\ \A c \in FiveCharTimes :
                timeRegex(c) => /\ ClockMinutes(c) \in 0..(24 * 60 - 1)
                                /\ StrLess(a, c) <=> ClockMinutes(a) < ClockMinutes(c)
                                /\ StrLess(c, b) <=> ClockMinutes(c) < ClockMinutes(b)
          /\ availabilityResp.status # 0 =>
                (availabilityResp.status = 200
                    <=> /\ ClockMinutes(a) < ClockMinutes(b)
                        /\ ~(ClockMinutes(a) < 13 * 60 /\ 12 * 60 < ClockMinutes(b)))

\* 09:30-10:00, whose hour strings differ in both digits, was accepted
C24_Witness ==
    /\ availabilityResp.status = 200
    /\ availabilityReq.schedule["monday"].slots[1] =
          Slot(Time("0", "9", "3", "0"), Time("1", "0", "0", "0"))

-----------------------------------------------------------------------------
(* The conflict predicate and stored durations *)

\* the stored interval of b and the proposed hour from start share an instant
OverlapsProposed(b, start) ==
    Overlaps(b.session_date, b.session_date + b.duration_minutes * MinuteMs,
             start, start + 60 * MinuteMs)

\* stored bookings on a five-minute grid, of one minute up to three hours
GridBookings ==
    {StoredBooking(5 * k * MinuteMs, d) : k \in 0..48, d \in {1} \cup {5 * j : j \in 1..36}}

\* C25: the three-clause conflict predicate of the booking handler is true
\* exactly when the stored interval [session_date, session_date +
\* duration_minutes) and the proposed interval [start, start + 60 min) overlap
\* under the half-open rule, for every positive stored duration, not only 60.
C25_ClausesAreHalfOpenOverlap ==
    [][\A p \in Procs :
          (pc[p] = "overlapCheck" /\ pc'[p] # "overlapCheck") =>
             LET start == req[p].sessionDate.ms
                 end == sessionEndDate(start)
             IN /\ \A i \in DOMAIN bookings :
                      OverlapClauses(bookings[i], start, end)
                         <=> OverlapsProposed(bookings[i], start)
                /\ \A b \in GridBookings :
                      OverlapClauses(b, start, end) <=> OverlapsProposed(b, start)
                /\ resp'[p] = ConflictReply
                      <=> \E i \in DOMAIN bookings :
                             /\ bookings[i].mentor_id = req[p].mentorId
                             /\ OverlapsProposed(bookings[i], start)
      ]_vars

\* a stored quarter of an hour that lies inside the proposed hour, touching
\* neither end, made the handler answer that the slot is booked
C25_Witness ==
    /\ resp["p1"] = ConflictReply
    /\ Len(bookings) = 1
    /\ bookings[1].duration_minutes = 15
    /\ bookings[1].session_date > req["p1"].sessionDate.ms
    /\ RowEnd(bookings[1]) < sessionEndDate(req["p1"].sessionDate.ms)

-----------------------------------------------------------------------------
(* The ledger under sequential processing *)

\* bookings i and j belong to one mentor and their stored intervals share an
\* instant
SameMentorOverlap(i, j) ==
    /\ bookings[i].mentor_id = bookings[j].mentor_id
    /\ Overlaps(bookings[i].session_date, RowEnd(bookings[i]),
                bookings[j].session_date, RowEnd(bookings[j]))

\* C26: when booking requests are processed one at a time, no two bookings of
\* the same mentor have strictly overlapping intervals
\* [session_date, session_date + duration_minutes), whatever their statuses.
C26_SequentialLedgerHasNoOverlap ==
    \A i, j \in DOMAIN bookings : i # j => ~SameMentorOverlap(i, j)

\* two bookings of one mentor, the second starting when the first ends
C26_Witness ==
    \E i, j \in DOMAIN bookings :
       /\ i # j
       /\ bookings[i].mentor_id = bookings[j].mentor_id
       /\ RowEnd(bookings[i]) = bookings[j].session_date

-----------------------------------------------------------------------------
(* The service a booking names *)

\* the service of booking b is null or a row of b's mentor in the given table
ServiceRefOk(b, table) ==
    \/ b.service_id = NoId
    \/ \E s \in table : s.id = b.service_id /\ s.mentor_id = b.mentor_id

\* handler p is about to insert for a service row that is no longer stored
ServiceGoneBeforeInsert(p) ==
    /\ pc[p] = "insert"
    /\ ~\E s \in mentor_services : s.id = service[p].id

\* C27: before and after every step, a services replace between a request's
\* service lookup and its insert included, each booking's service_id is null
\* or names an existing service row of that booking's mentor; an insert whose
\* selected service was deleted in between creates no booking.
C27_ServiceReferenceAlwaysValid ==
    [][/\ \A i \in DOMAIN bookings : ServiceRefOk(bookings[i], mentor_services)
       /\ \A i \in DOMAIN bookings' : ServiceRefOk(bookings'[i], mentor_services')
       /\ \A p \in Procs :
             (ServiceGoneBeforeInsert(p) /\ pc'[p] # "insert") =>
                /\ bookings' = bookings
                /\ resp'[p] = Reply(500, "Failed to create booking")
      ]_vars

\* a request reached its insert and was answered 500 without a booking, and
\* the service it names is no longer stored: the mentor's services were
\* replaced and the booking's mentor now offers another row
C27_Witness ==
    /\ pc["p1"] = "idle"
    /\ resp["p1"] = Reply(500, "Failed to create booking")
    /\ req["p1"].serviceId # NoId
    /\ ~\E s \in mentor_services : s.id = req["p1"].serviceId
    /\ \E s \in mentor_services : s.mentor_id = req["p1"].mentorId
    /\ bookings = <<>>

-----------------------------------------------------------------------------
(* Bookings and the availability store *)

\* the stored service row the waiting insert of p would snapshot, if any
StoredService(p) == {s \in mentor_services : s.id = service[p].id}

\* what the next step of handler p does, from the request r it holds after the
\* step and from the users, the services, the bookings and the clock alone:
\* the place it moves to and the status it answers with (0 while it goes on)
StepWithoutAvailability(p, r) ==
    CASE pc[p] = "idle" ->
           IF ~r.user.present THEN <<"idle", 401>>
           ELSE IF r.user.userType # "user" THEN <<"idle", 403>>
           ELSE IF r.mentorId = "" \/ r.serviceId = NoId \/ r.sessionDate.kind = "missing"
             THEN <<"idle", 400>>
           ELSE <<"mentorCheck", 0>>
      [] pc[p] = "mentorCheck" ->
           IF \E u \in users : u.id = r.mentorId /\ u.user_type = "mentor"
             THEN <<"serviceQuery", 0>> ELSE <<"idle", 404>>
      [] pc[p] = "serviceQuery" ->
           IF \E s \in mentor_services : s.id = r.serviceId /\ s.mentor_id = r.mentorId
             THEN <<"validateDate", 0>> ELSE <<"idle", 404>>
      [] pc[p] = "validateDate" ->
           IF r.sessionDate.kind # "iso" \/ r.sessionDate.ms <= now
             THEN <<"idle", 400>> ELSE <<"overlapCheck", 0>>
      [] pc[p] = "overlapCheck" ->
           IF \E i \in DOMAIN bookings :
                 /\ bookings[i].mentor_id = r.mentorId
                 /\ OverlapsProposed(bookings[i], r.sessionDate.ms)
             THEN <<"idle", 400>> ELSE <<"insert", 0>>
      [] pc[p] = "insert" ->
           IF StoredService(p) # {} /\ Priced(service[p].mentor_session_price,
                                              service[p].platform_fee,
                                              service[p].taxes_fee,
                                              service[p].total_price)
             THEN <<"idle", 201>> ELSE <<"idle", 500>>

\* handler p takes a step
HandlerStep(p) == pc'[p] # pc[p] \/ resp'[p] # resp[p] \/ req'[p] # req[p]

\* C28: the outcome of a booking request does not depend on the mentor's
\* availability: every step of the handler moves and answers as the request,
\* the users, the services, the bookings and the clock alone determine, changes
\* the ledger only by the row of a 201, and leaves the availability store as
\* it was; so a session outside every availability slot, or for a mentor with
\* no availability record, is accepted.
C28_OutcomeIndependentOfAvailability ==
    [][\A p \in Procs :
          HandlerStep(p) =>
             /\ <<pc'[p], resp'[p].status>> = StepWithoutAvailability(p, req'[p])
             /\ mentor_availability' = mentor_availability
             /\ IF resp'[p].status = 201
                  THEN bookings' = Append(bookings, resp'[p].data)
                  ELSE bookings' = bookings
      ]_vars

\* mentor m1 stores a week whose only slot is thursday 09:00-10:00, mentor m2
\* stores no availability, and each of them has a booked session in the small
\* hours of a thursday; the last request was answered 201
C28_Witness ==
    /\ resp["p1"].status = 201
    /\ \E a \in mentor_availability :
          /\ a.mentor_id = "m1"
          /\ a.schedule = [EmptyWeek EXCEPT !["thursday"] = Array(<<Slot0910>>)]
    /\ ~\E a \in mentor_availability : a.mentor_id = "m2"
    /\ \E i, j \in DOMAIN bookings :
          /\ bookings[i].mentor_id = "m1"
          /\ bookings[j].mentor_id = "m2"
          /\ bookings[j].session_date < 9 * 60 * MinuteMs
          /\ bookings[i].session_date < 9 * 60 * MinuteMs

-----------------------------------------------------------------------------
(* Document confirmations *)

ConfirmationsOf(m) == {c \in mentor_document_confirmations : c.mentor_id = m}

\* the stored application of mentor m is pending
PendingMentor(m) ==
    \E d \in mentor_details : d.user_id = m /\ d.application_status = "pending"

\* handler p answers in this step
ConfirmAnswered(p) == confirms[p].state # "idle" /\ confirms'[p].state = "idle"

\* C29: a mentor has at most one document-confirmation record, and a record,
\* once written, stays as it is; a confirm-document request is answered 200
\* exactly by the insert that writes the mentor's first record, so of two
\* requests for the same pending mentor running concurrently the one whose
\* insert comes first succeeds and the other is answered 400 with
\* alreadyConfirmed; a mentor whose application is not pending never gets a
\* record.
C29_OneConfirmationPerMentor ==
    [][/\ \A m \in {"m1", "m2"} : Cardinality(ConfirmationsOf(m)) <= 1
       /\ \A m \in {"m1", "m2"} : Cardinality(ConfirmationsOf(m)') <= 1
       /\ mentor_document_confirmations \subseteq mentor_document_confirmations'
       /\ \A c \in mentor_document_confirmations' : PendingMentor(c.mentor_id)
       /\ \A p \in Procs :
             ConfirmAnswered(p) =>
                LET m == confirms[p].req.user.id
                    other == CHOOSE q \in Procs : q # p
                IN /\ confirms'[p].resp.status = 200
                        <=> /\ ConfirmationsOf(m) = {}
                            /\ mentor_document_confirmations' = mentor_document_confirmations \cup
                                  {[mentor_id |-> m,
                                    document_type |-> confirms[p].req.documentType,
                                    confirmed |-> TRUE]}
                            /\ confirms[p].state = "insert"
                   /\ confirms'[p].resp.status # 200 =>
                         mentor_document_confirmations' = mentor_document_confirmations
                   /\ (PendingMentor(m) /\ ConfirmationsOf(m) # {}) =>
                         confirms'[p].resp = AlreadyConfirmedReply
                   /\ (/\ confirms[p].state = "insert"
                       /\ confirms[other].state = "insert"
                       /\ confirms[other].req.user.id = m) =>
                         /\ confirms'[p].resp.status = 200
                         /\ ConfirmationsOf(m)' # {}
      ]_vars

\* two requests of the pending mentor m1 with different document types have
\* both been answered: one with 200, the other with 400 and alreadyConfirmed,
\* and the one record holds the document type of the request that succeeded
C29_Witness ==
    /\ confirms["p1"].state = "idle" /\ confirms["p2"].state = "idle"
    /\ confirms["p1"].req.user.id = "m1" /\ confirms["p2"].req.user.id = "m1"
    /\ confirms["p1"].req.documentType = "individual_entrepreneur"
    /\ confirms["p2"].req.documentType = "private_individual"
    /\ confirms["p1"].resp.status = 200
    /\ confirms["p2"].resp = AlreadyConfirmedReply
    /\ mentor_document_confirmations =
          {[mentor_id |-> "m1", document_type |-> "individual_entrepreneur", confirmed |-> TRUE]}

====
